---- MODULE Spec2Model ----
(***************************************************************************)
(* Streaming orchestration layer of the realtime translation backend:      *)
(* the per-session ingest loop (pipeline.py, handle_session and            *)
(* process_segment) with its segmentation policy (segmenter.py), the       *)
(* per-target synthesis pacer (pipeline.py, _enqueue_tts/_tts_worker) and  *)
(* the subscriber registry it fans out to (out_ws.py, SUBS/out).           *)
(*                                                                         *)
(* Everything runs on one asyncio event loop: a task runs without          *)
(* interruption from one await to the next.  Each action below is one such *)
(* run.  A worker position in NonYielding is a point inside a run (no      *)
(* await there): while some worker is at such a position no other task     *)
(* takes a step.                                                           *)
(*                                                                         *)
(* The pacer's clock (time.time(), now) is counted in half seconds; the    *)
(* ingest loop's clock (time.perf_counter(), perf) in milliseconds.        *)
(***************************************************************************)
EXTENDS Integers, Sequences, FiniteSets, TLC

\* ---------------------------------------------------------------- bounds
MaxJobs == 2          \* _enqueue_tts calls in one behaviour
MaxTime == 3          \* the clock stops advancing here (half seconds)
MaxPerfTicks == 5     \* perf_counter stops after this many steps
MaxFragments == 2     \* fragments a session's recognizer hands over
MaxMs == 2            \* time.time() is followed for this many milliseconds
MaxSilenceTicks == 6  \* perf_counter steps while the silence counter is followed
MaxChunks == 3        \* synthesizing events of one stream_pcm call
MaxFrames == 4        \* translated frames that reach the translation queue

\* ------------------------------------------------------------- constants
TTS_LEAD_TIME_SECONDS == 3      \* 1.5 s, in half seconds
SEND_WS_AUDIO == TRUE           \* config default "1"

Sessions == {"S1", "S2"}
FanSessions == {"S1"}           \* the sessions of the registry specification
Targets == {"hi-IN", "fr-FR"}
Conns == {"c1", "c2"}           \* output websocket objects, each used once
Texts == {"namaste"}            \* translated text of a job
Durations == {0, 2, 4}          \* clip lengths synthesis can produce (0: no audio)
ShortDurations == {0, 2}        \* those no longer than the lead time

TaskIds == 1..MaxJobs           \* every task is created by an enqueue

NoJob == [session |-> "-", n |-> 0, text |-> ""]

Max(a, b) == IF a >= b THEN a ELSE b
\* No upper limit: the second value as it is.
Unclamped(a, b) == b

Min(a, b) == IF a <= b THEN a ELSE b
Range(q) == {q[i] : i \in 1..Len(q)}

VARIABLES
    now,                 \* time.time()
    tts_queues,          \* _tts_queues: target -> FIFO of jobs
    tts_tasks,           \* _tts_tasks: target -> task id (0: no entry)
    tts_locks,           \* _tts_locks: target -> holder task id (0: free)
    tts_expected_end,    \* _tts_expected_end
    tts_last_duration,   \* _tts_last_duration
    tasks,               \* the _tts_worker coroutines, by task id
    SUBS,                \* out_ws.SUBS: session -> target -> list of connections
    conn,                \* each output connection: state and (session, target)
    inbox,               \* what each output connection has received, in order
    njobs,               \* number of enqueues so far (numbers the jobs)
    hist,                \* per target: what the worker did, in order
    played,              \* per target: audio payloads delivered (job, time, length)
    perf,                \* time.perf_counter(), in milliseconds
    time_ms,             \* int(time.time() * 1000), where a session's cut reads it
    ses,                 \* handle_session: the locals of each session's loop
    ws,                  \* each session's ingest websocket
    result_queue,        \* handle_session: result_queue of each session
    scheduled,           \* call_soon_threadsafe callbacks not yet run, per session
    recognizer,          \* each session's recognizer: none, running, stopped
    recognized,          \* per session: every fragment handed over so far
    segments,            \* per session: every segment dispatched so far
    call,                \* a function under test: its arguments and its result
    TTS_OUTPUT_SAMPLE_RATE,  \* config.TTS_OUTPUT_SAMPLE_RATE, read at import
    translation_queue    \* bot.py: a SequentialTranslationQueue and its drain tasks

pacerVars == <<now, tts_queues, tts_tasks, tts_locks, tts_expected_end,
               tts_last_duration, tasks, SUBS, conn, inbox, njobs, hist, played>>

ingestVars == <<perf, time_ms, ses, ws, result_queue, scheduled, recognizer,
                recognized, segments>>

vars == <<pacerVars, ingestVars, call, TTS_OUTPUT_SAMPLE_RATE, translation_queue>>

\* ------------------------------------------------------------ dictionaries
DictSet(f, k, v) == [x \in (DOMAIN f) \cup {k} |-> IF x = k THEN v ELSE f[x]]
DictDel(f, k) == [x \in (DOMAIN f) \ {k} |-> f[x]]
EmptyDict == [x \in {} |-> <<>>]

\* SUBS.get(session_id, {}).get(target, [])
Bucket(subs, s, t) ==
    IF s \in DOMAIN subs /\ t \in DOMAIN subs[s] THEN subs[s][t] ELSE <<>>

\* The session's entry replaced by one that holds the target alone.
RegistryReplace(subs, s, t, alive) ==
    IF s \in DOMAIN subs THEN [subs EXCEPT ![s] = DictSet(EmptyDict, t, alive)] ELSE subs

\* SUBS.get(session_id, {}).update({target: alive})
RegistryUpdate(subs, s, t, alive) ==
    IF s \in DOMAIN subs THEN [subs EXCEPT ![s] = DictSet(@, t, alive)] ELSE subs

\* ------------------------------------------------------------------ tasks
IdleTask ==
    [pc |-> "unborn", target |-> "-", job |-> NoJob, wake |-> 0, send_ts |-> 0,
     clients |-> <<>>, cshared |-> FALSE, alive |-> <<>>, ashared |-> FALSE,
     idx |-> 0, dur |-> 0, failed |-> {}, joined |-> {}, exc |-> "none",
     chunk_meta |-> [timestamp |-> 0, duration_sec |-> 0]]

NonYielding == {"begin", "fin"}
InFlight == {"lockwait", "sleep", "begin", "meta", "synth", "audio", "fin"}
Broadcasting == {"meta", "synth", "audio"}

\* The event loop can take up another coroutine or callback: no worker is
\* between two awaits, and no session is inside the call of translate_texts
\* (translator.py line 21, a synchronous request on the loop's thread).
Quiet ==
    /\ \A w \in TaskIds : tasks[w].pc \notin NonYielding
    /\ \A s \in Sessions : ses[s].pc # "translate"

\* ---------------------------------------------------------------- sessions
None == -1                      \* last_recognized_ts = None

\* The locals of handle_session before the session exists.
\* The handshake record: "target" ("" when absent or empty) and "targets".
NoMeta == [target |-> "", targets |-> <<>>]

IdleSession ==
    [pc |-> "unborn", target |-> "-", buffer_text |-> <<>>, silence_ms |-> 0,
     last_loop_ts |-> 0, last_recognized_ts |-> None, exc |-> "none",
     meta |-> NoMeta]

NoCall == [fn |-> "none"]

SAMPLE_RATE == 16000

\* config.py line 23: without TTS_OUTPUT_SAMPLE_RATE in the environment the
\* synthesis rate is SAMPLE_RATE.
DefaultConfig == TTS_OUTPUT_SAMPLE_RATE = SAMPLE_RATE

DrainIds == 1..MaxFrames

\* bot.py lines 145-150: the object as __init__ leaves it.  drains are the
\* tasks made from _drain_queue (pc and the frame in push_frame); frames are
\* numbered as process_frame receives them (seen), put and pushed are the
\* frames in the order they were put on the queue and pushed downstream.
NewTranslationQueue ==
    [queue |-> <<>>, drain_task |-> 0, drain_lock |-> 0,
     drains |-> [d \in DrainIds |-> [pc |-> "unborn", frame |-> 0]],
     seen |-> 0, put |-> <<>>, pushed |-> <<>>]

BotIdle == translation_queue = NewTranslationQueue

\* No ingest session has connected yet.
IngestIdle ==
    /\ perf = 0
    /\ time_ms = 0
    /\ ses = [s \in Sessions |-> IdleSession]
    /\ ws = [s \in Sessions |-> "none"]
    /\ result_queue = [s \in Sessions |-> <<>>]
    /\ scheduled = [s \in Sessions |-> <<>>]
    /\ recognizer = [s \in Sessions |-> "none"]
    /\ recognized = [s \in Sessions |-> <<>>]
    /\ segments = [s \in Sessions |-> <<>>]

\* The module globals of pipeline.py and out_ws.py as the imports leave them.
PacerIdle ==
    /\ now = 0
    /\ tts_queues = [t \in Targets |-> <<>>]
    /\ tts_tasks = [t \in Targets |-> 0]
    /\ tts_locks = [t \in Targets |-> 0]
    /\ tts_expected_end = [t \in Targets |-> 0]
    /\ tts_last_duration = [t \in Targets |-> 0]
    /\ tasks = [w \in TaskIds |-> IdleTask]
    /\ SUBS = EmptyDict
    /\ conn = [c \in Conns |-> [st |-> "new", session |-> "-", target |-> "-"]]
    /\ inbox = [c \in Conns |-> <<>>]
    /\ njobs = 0
    /\ hist = [t \in Targets |-> <<>>]
    /\ played = [t \in Targets |-> <<>>]

Init ==
    /\ IngestIdle
    /\ call = NoCall
    /\ DefaultConfig
    /\ BotIdle
    /\ PacerIdle

Tick ==
    /\ Quiet
    /\ now < MaxTime
    /\ now' = now + 1
    /\ UNCHANGED <<tts_queues, tts_tasks, tts_locks, tts_expected_end,
                   tts_last_duration, tasks, SUBS, conn, inbox, njobs, hist, played>>
    /\ UNCHANGED <<ingestVars, call, TTS_OUTPUT_SAMPLE_RATE, translation_queue>>

\* ------------------------------------------------------------ _enqueue_tts
\* A worker started by every enqueue (the check of line 147 left out).
AlwaysNewTask(t) == TRUE

\* line 147: target not in _tts_tasks or _tts_tasks[target].done()
NeedsNewTask(t) ==
    \/ tts_tasks[t] = 0
    \/ tasks[tts_tasks[t]].pc = "done"

NewTaskId == Cardinality({w \in TaskIds : tasks[w].pc # "unborn"}) + 1

\* lines 145-148: the job is put on the target's queue and a worker is
\* started when there is none.
Put(s, t, x) ==
    /\ njobs' = njobs + 1
    /\ tts_queues' = [tts_queues EXCEPT
                        ![t] = Append(@, [session |-> s, n |-> njobs + 1, text |-> x])]
    /\ IF NeedsNewTask(t)
         THEN /\ tts_tasks' = [tts_tasks EXCEPT ![t] = NewTaskId]
              /\ tasks' = [tasks EXCEPT ![NewTaskId] =
                              [IdleTask EXCEPT !.pc = "start", !.target = t]]
         ELSE UNCHANGED <<tts_tasks, tasks>>
    /\ UNCHANGED <<now, tts_locks, tts_expected_end, tts_last_duration,
                   SUBS, conn, inbox, hist, played>>

\* lines 144-148. queue.put on an unbounded queue does not suspend.
Enqueue(s, t, x) ==
    /\ Quiet
    /\ njobs < MaxJobs
    /\ Put(s, t, x)

\* _enqueue_tts called for a segment of a session whose ingest loop is not
\* followed: the translated text x is all that is left of the segment.
EnqueueTts(s, t, x) ==
    /\ Enqueue(s, t, x)
    /\ UNCHANGED <<ingestVars, call, TTS_OUTPUT_SAMPLE_RATE, translation_queue>>

\* ------------------------------------------------------------- _tts_worker
\* A queue that hands out its newest item (a LifoQueue).
LastIndex(q) == Len(q)

\* asyncio.Queue.get: the position in the queue of the item it returns
GetIndex(q) == 1

\* A get that leaves the item on the queue.
QueueKept(q, i) == q

\* asyncio.Queue.get takes the item off the queue
QueueWithout(q, i) == SubSeq(q, 1, i - 1) \o SubSeq(q, i + 1, Len(q))

\* No pacing wait at all.
NoWait(t) == 0

\* lines 162-165
WaitFor(t) ==
    Max(0, tts_expected_end[t]
             - Min(tts_last_duration[t], TTS_LEAD_TIME_SECONDS) - now)

\* lines 161-168: the lock is taken; sleep when wait_for > 0, else go on
Paced(T) ==
    IF WaitFor(T.target) > 0
      THEN [T EXCEPT !.pc = "sleep", !.wake = now + WaitFor(T.target)]
      ELSE [T EXCEPT !.pc = "begin"]

\* The fields of a task that belong to one job, as a new job is taken.
WithJob(T, job) ==
    [IdleTask EXCEPT !.pc = T.pc, !.target = T.target, !.job = job]

\* lines 155-168 (and 252 when coming from the end of a job): queue.get()
\* returns a job, then the lock and the pacing wait.
Dequeue(w) ==
    LET T == tasks[w]
        t == T.target
        q == tts_queues[t]
        job == q[GetIndex(q)]
        free == IF T.pc = "fin" THEN 0 ELSE tts_locks[t]
    IN  /\ T.pc \in {"start", "get", "fin"}
        /\ T.pc = "fin" \/ Quiet
        /\ q # <<>>
        /\ tts_queues' = [tts_queues EXCEPT ![t] = QueueWithout(q, GetIndex(q))]
        /\ hist' = [hist EXCEPT ![t] = Append(@, <<"deq", job.n>>)]
        /\ IF free = 0
             THEN /\ tts_locks' = [tts_locks EXCEPT ![t] = w]
                  /\ tasks' = [tasks EXCEPT ![w] = Paced(WithJob(T, job))]
             ELSE /\ tts_locks' = tts_locks
                  /\ tasks' = [tasks EXCEPT ![w] =
                                  [WithJob(T, job) EXCEPT !.pc = "lockwait"]]
        /\ UNCHANGED <<now, tts_tasks, tts_expected_end, tts_last_duration,
                       SUBS, conn, inbox, njobs, played>>
        /\ UNCHANGED <<ingestVars, call, TTS_OUTPUT_SAMPLE_RATE, translation_queue>>

\* lines 252, 155-157: the queue is empty, the worker waits in queue.get()
Park(w) ==
    LET T == tasks[w]
        t == T.target
    IN  /\ T.pc \in {"start", "fin"}
        /\ T.pc = "fin" \/ Quiet
        /\ tts_queues[t] = <<>>
        /\ tts_locks' = IF T.pc = "fin" THEN [tts_locks EXCEPT ![t] = 0] ELSE tts_locks
        /\ tasks' = [tasks EXCEPT ![w] =
                        [IdleTask EXCEPT !.pc = "get", !.target = t]]
        /\ UNCHANGED <<now, tts_queues, tts_tasks, tts_expected_end,
                       tts_last_duration, SUBS, conn, inbox, njobs, hist, played>>
        /\ UNCHANGED <<ingestVars, call, TTS_OUTPUT_SAMPLE_RATE, translation_queue>>

\* The worker resumes inside "async with lock": from line 161 once the lock
\* is free (then the pacing wait is computed), or from the sleep of line 168
\* at or after its deadline.
Resume(w) ==
    LET T == tasks[w]
    IN  /\ Quiet
        /\ \/ /\ T.pc = "sleep"
              /\ now >= T.wake
              /\ tasks' = [tasks EXCEPT ![w] = [T EXCEPT !.pc = "begin", !.wake = 0]]
              /\ tts_locks' = tts_locks
           \/ /\ T.pc = "lockwait"
              /\ tts_locks[T.target] = 0
              /\ tts_locks' = [tts_locks EXCEPT ![T.target] = w]
              /\ tasks' = [tasks EXCEPT ![w] = Paced(T)]
        /\ UNCHANGED <<now, tts_queues, tts_tasks, tts_expected_end,
                       tts_last_duration, SUBS, conn, inbox, njobs, hist, played>>
        /\ UNCHANGED <<ingestVars, call, TTS_OUTPUT_SAMPLE_RATE, translation_queue>>

\* A send on an output websocket succeeds while the peer is connected and
\* raises once it has disconnected.
SendOk(c) == conn[c].st = "open"

\* A send error that no handler catches (the try/except left out).
SendErrorEscapes == FALSE

\* lines 187-191 and 244-247: "except Exception" around each send
SendErrorCaught == TRUE

\* The worker's exception leaves _tts_worker: "async with" releases the lock
\* and the task is done.
Died(T, what) ==
    [IdleTask EXCEPT !.pc = "done", !.target = T.target, !.exc = what]

SameBucket(T, s, t) == T.job.session = s /\ T.target = t

\* Lists are objects: the registry bucket of (s, t) has been replaced by
\* another list, so no worker's clients or alive is that bucket any more.
Unshared(tk, s, t) ==
    [v \in DOMAIN tk |->
        IF SameBucket(tk[v], s, t)
          THEN [tk[v] EXCEPT !.cshared = FALSE, !.ashared = FALSE]
          ELSE tk[v]]

\* lines 192 and 248, seen from the tasks: when the session has an entry,
\* the bucket of (session, target) now is the worker's own alive list.
AfterUpdate(tk, w) ==
    LET s == tk[w].job.session
        t == tk[w].target
    IN  IF s \in DOMAIN SUBS
          THEN [Unshared(tk, s, t) EXCEPT ![w].ashared = TRUE]
          ELSE [tk EXCEPT ![w].cshared = FALSE]

Logged(h, e) == IF e \in Range(h) THEN h ELSE Append(h, e)

\* lines 173-182: the metadata record of a job (the fields the model follows)
ChunkMeta(send_ts) == [timestamp |-> send_ts, duration_sec |-> 0]

\* lines 170-192, up to the first await: send_ts, the metadata record, the
\* lookup of the clients, and with no client the registry write and the call
\* of stream_pcm.
Begin(w) ==
    LET T == tasks[w]
        s == T.job.session
        t == T.target
        clients == Bucket(SUBS, s, t)
        T1 == [T EXCEPT !.send_ts = now, !.chunk_meta = ChunkMeta(now)]
    IN  /\ T.pc = "begin"
        /\ IF SEND_WS_AUDIO /\ clients # <<>>
             THEN /\ tasks' = [tasks EXCEPT ![w] =
                                 [T1 EXCEPT !.pc = "meta", !.clients = clients,
                                            !.cshared = TRUE, !.idx = 1]]
                  /\ SUBS' = SUBS
             ELSE /\ tasks' = AfterUpdate(
                                 [tasks EXCEPT ![w] = [T1 EXCEPT !.pc = "synth"]], w)
                  /\ SUBS' = IF SEND_WS_AUDIO
                               THEN RegistryUpdate(SUBS, s, t, <<>>) ELSE SUBS
        /\ UNCHANGED <<now, tts_queues, tts_tasks, tts_locks, tts_expected_end,
                       tts_last_duration, conn, inbox, njobs, hist, played>>
        /\ UNCHANGED <<ingestVars, call, TTS_OUTPUT_SAMPLE_RATE, translation_queue>>

\* lines 186-192: one send_text returns (or raises); after the last client
\* the registry write, then stream_pcm is called.
MetaSend(w) ==
    LET T == tasks[w]
        s == T.job.session
        t == T.target
        c == T.clients[T.idx]
        ok == SendOk(c)
        last == T.idx >= Len(T.clients)
        T1 == IF ok THEN [T EXCEPT !.alive = Append(@, c), !.idx = @ + 1]
                    ELSE [T EXCEPT !.failed = @ \cup {c}, !.idx = @ + 1]
    IN  /\ Quiet
        /\ T.pc = "meta"
        /\ inbox' = IF ok THEN [inbox EXCEPT ![c] = Append(@, <<"meta", T.job.n>>)]
                          ELSE inbox
        /\ hist' = IF ok THEN [hist EXCEPT ![t] = Logged(@, <<"meta", T.job.n>>)]
                         ELSE hist
        /\ IF ~ok /\ ~SendErrorCaught
             THEN /\ tasks' = [tasks EXCEPT ![w] = Died(T, "send")]
                  /\ tts_locks' = [tts_locks EXCEPT ![t] = 0]
                  /\ SUBS' = SUBS
             ELSE IF last
               THEN /\ tasks' = AfterUpdate(
                                   [tasks EXCEPT ![w] = [T1 EXCEPT !.pc = "synth"]], w)
                    /\ SUBS' = RegistryUpdate(SUBS, s, t, T1.alive)
                    /\ tts_locks' = tts_locks
               ELSE /\ tasks' = [tasks EXCEPT ![w] = T1]
                    /\ SUBS' = SUBS
                    /\ tts_locks' = tts_locks
        /\ UNCHANGED <<now, tts_queues, tts_tasks, tts_expected_end,
                       tts_last_duration, conn, njobs, played>>
        /\ UNCHANGED <<ingestVars, call, TTS_OUTPUT_SAMPLE_RATE, translation_queue>>

\* azure_tts.py lines 28-33: the sample rates format_map has an entry for
format_map == {8000, 16000, 24000, 48000}

\* lines 194-242: stream_pcm ends having produced d half seconds of audio;
\* the timing state is written, and with audio and someone alive the audio
\* fan-out starts.
SynthDone(w, d) ==
    LET T == tasks[w]
        t == T.target
        fanout == SEND_WS_AUDIO /\ T.alive # <<>> /\ d > 0
    IN  /\ Quiet
        /\ T.pc = "synth"
        /\ TTS_OUTPUT_SAMPLE_RATE \in format_map
        /\ tts_expected_end' = [tts_expected_end EXCEPT ![t] = T.send_ts + d]
        /\ tts_last_duration' = [tts_last_duration EXCEPT ![t] = d]
        /\ hist' = [hist EXCEPT ![t] = Append(@, <<"synth", T.job.n>>)]
        /\ tasks' = [tasks EXCEPT ![w] =
                        [T EXCEPT !.dur = d, !.idx = IF fanout THEN 1 ELSE @,
                                  !.pc = IF fanout THEN "audio" ELSE "fin"]]
        /\ UNCHANGED <<now, tts_queues, tts_tasks, tts_locks, SUBS, conn, inbox,
                       njobs, played>>
        /\ UNCHANGED <<ingestVars, call, TTS_OUTPUT_SAMPLE_RATE, translation_queue>>

\* line 196: stream_pcm raises (azure_tts.py line 36, or the SDK); nothing in
\* _tts_worker catches it.
SynthFail(w) ==
    LET T == tasks[w]
    IN  /\ Quiet
        /\ T.pc = "synth"
        /\ tasks' = [tasks EXCEPT ![w] = Died(T, "synthesis")]
        /\ tts_locks' = [tts_locks EXCEPT ![T.target] = 0]
        /\ hist' = [hist EXCEPT ![T.target] = Append(@, <<"raise", T.job.n>>)]
        /\ UNCHANGED <<now, tts_queues, tts_tasks, tts_expected_end,
                       tts_last_duration, SUBS, conn, inbox, njobs, played>>
        /\ UNCHANGED <<ingestVars, call, TTS_OUTPUT_SAMPLE_RATE, translation_queue>>

\* lines 243-248: one send_bytes returns (or raises); after the last one the
\* registry write.
AudioSend(w) ==
    LET T == tasks[w]
        s == T.job.session
        t == T.target
        c == T.alive[T.idx]
        ok == SendOk(c)
        last == T.idx >= Len(T.alive)
        T1 == IF ok THEN [T EXCEPT !.idx = @ + 1]
                    ELSE [T EXCEPT !.failed = @ \cup {c}, !.idx = @ + 1]
        clip == [n |-> T.job.n, session |-> s, at |-> now, dur |-> T.dur]
    IN  /\ Quiet
        /\ T.pc = "audio"
        /\ inbox' = IF ok THEN [inbox EXCEPT ![c] = Append(@, <<"audio", T.job.n>>)]
                          ELSE inbox
        /\ hist' = IF ok THEN [hist EXCEPT ![t] = Logged(@, <<"audio", T.job.n>>)]
                         ELSE hist
        /\ played' = IF ok /\ \A i \in 1..Len(played[t]) : played[t][i].n # T.job.n
                       THEN [played EXCEPT ![t] = Append(@, clip)]
                       ELSE played
        /\ IF ~ok /\ ~SendErrorCaught
             THEN /\ tasks' = [tasks EXCEPT ![w] = Died(T, "send")]
                  /\ tts_locks' = [tts_locks EXCEPT ![t] = 0]
                  /\ SUBS' = SUBS
             ELSE IF last
               THEN /\ tasks' = AfterUpdate(
                                   [tasks EXCEPT ![w] = [T1 EXCEPT !.pc = "fin"]], w)
                    /\ SUBS' = RegistryUpdate(SUBS, s, t, T1.alive)
                    /\ tts_locks' = tts_locks
               ELSE /\ tasks' = [tasks EXCEPT ![w] = T1]
                    /\ SUBS' = SUBS
                    /\ tts_locks' = tts_locks
        /\ UNCHANGED <<now, tts_queues, tts_tasks, tts_expected_end,
                       tts_last_duration, conn, njobs>>
        /\ UNCHANGED <<ingestVars, call, TTS_OUTPUT_SAMPLE_RATE, translation_queue>>

\* ------------------------------------------------------------- out_ws.out
\* lines 13-15: accept, the handshake record, then the append to the bucket
\* (created when missing).  The append is to the list object itself: a worker
\* iterating that very list sees the new connection.
Subscribe(c, s, t) ==
    LET had == s \in DOMAIN SUBS /\ t \in DOMAIN SUBS[s]
        sess == IF s \in DOMAIN SUBS THEN SUBS[s] ELSE EmptyDict
    IN  /\ Quiet
        /\ conn[c].st = "new"
        /\ conn' = [conn EXCEPT ![c] = [st |-> "open", session |-> s, target |-> t]]
        /\ inbox' = [inbox EXCEPT ![c] = Append(@, <<"hello", 0>>)]
        /\ SUBS' = DictSet(SUBS, s, DictSet(sess, t, Append(Bucket(SUBS, s, t), c)))
        /\ tasks' = [v \in DOMAIN tasks |->
                        IF SameBucket(tasks[v], s, t) /\ tasks[v].pc \in Broadcasting
                          THEN [tasks[v] EXCEPT
                                  !.clients = IF had /\ tasks[v].cshared
                                                THEN Append(@, c) ELSE @,
                                  !.alive = IF had /\ tasks[v].ashared
                                              THEN Append(@, c) ELSE @,
                                  !.joined = @ \cup {c}]
                          ELSE tasks[v]]
        /\ UNCHANGED <<now, tts_queues, tts_tasks, tts_locks, tts_expected_end,
                       tts_last_duration, njobs, hist, played>>
        /\ UNCHANGED <<ingestVars, call, TTS_OUTPUT_SAMPLE_RATE, translation_queue>>

\* The listener disconnects: receive_text will raise WebSocketDisconnect in
\* the handler, and sends to the connection raise from now on.
Close(c) ==
    /\ Quiet
    /\ conn[c].st = "open"
    /\ conn' = [conn EXCEPT ![c].st = "closed"]
    /\ UNCHANGED <<now, tts_queues, tts_tasks, tts_locks, tts_expected_end,
                   tts_last_duration, tasks, SUBS, inbox, njobs, hist, played>>
    /\ UNCHANGED <<ingestVars, call, TTS_OUTPUT_SAMPLE_RATE, translation_queue>>

\* lines 22-28, on the registry
Unsubscribed(subs, s, t, c) ==
    IF s \notin DOMAIN subs THEN subs
    ELSE LET sess == subs[s]
             Keep(x) == x # c
             rest == SelectSeq(Bucket(subs, s, t), Keep)
             sess1 == IF t \notin DOMAIN sess THEN sess
                      ELSE IF rest = <<>> THEN DictDel(sess, t)
                      ELSE DictSet(sess, t, rest)
         IN  IF DOMAIN sess1 = {} THEN DictDel(subs, s)
             ELSE [subs EXCEPT ![s] = sess1]

\* lines 19-28: the handler's finally block
Cleanup(c) ==
    LET s == conn[c].session
        t == conn[c].target
        had == s \in DOMAIN SUBS /\ t \in DOMAIN SUBS[s]
    IN  /\ Quiet
        /\ conn[c].st = "closed"
        /\ conn' = [conn EXCEPT ![c].st = "gone"]
        /\ SUBS' = Unsubscribed(SUBS, s, t, c)
        /\ tasks' = IF had THEN Unshared(tasks, s, t) ELSE tasks
        /\ UNCHANGED <<now, tts_queues, tts_tasks, tts_locks, tts_expected_end,
                       tts_last_duration, inbox, njobs, hist, played>>
        /\ UNCHANGED <<ingestVars, call, TTS_OUTPUT_SAMPLE_RATE, translation_queue>>

\* ------------------------------------------------------------------- texts
\* A text is a sequence of characters; a character is written as a string
\* ("danda", "ddanda" and "ellipsis" stand for the three non-ASCII marks).
Whitespace == {" "}
AsciiMarks == {".", "?", "!"}                          \* segmenter.py line 2
TerminalMarks == {".", "?", "!", "danda", "ddanda", "ellipsis"}   \* pipeline.py line 122

\* str.strip()
Strip(x) ==
    LET keep == {i \in 1..Len(x) : x[i] \notin Whitespace}
    IN  IF keep = {} THEN <<>>
        ELSE SubSeq(x, CHOOSE i \in keep : \A j \in keep : i <= j,
                       CHOOSE i \in keep : \A j \in keep : i >= j)

\* text.endswith(p) for some p of marks (each one character long)
EndsWith(x, marks) == x # <<>> /\ x[Len(x)] \in marks

\* ------------------------------------------------------------ segmenter.py
DEFAULT_MAX_MS == 3000

\* The silence threshold taken strictly (> 800) and the max_ms test left out.
should_cut_strict(text, silence_ms, max_ms) ==
    IF EndsWith(text, AsciiMarks) THEN TRUE
    ELSE IF silence_ms > 800 THEN TRUE
    ELSE FALSE

\* segmenter.py lines 1-8
should_cut_segment(text, silence_ms, max_ms) ==
    IF EndsWith(text, AsciiMarks) THEN TRUE
    ELSE IF silence_ms >= 800 THEN TRUE
    ELSE IF silence_ms >= max_ms THEN TRUE
    ELSE FALSE

\* The arguments should_cut_segment is tried on.
SegTexts ==
    {<<>>, <<"a">>, <<"a", " ">>, <<"a", ".", " ">>}
      \cup {<<"a", m>> : m \in TerminalMarks} \cup {<<m>> : m \in TerminalMarks}
SilenceValues == {0, 799, 800, 801, 2000, 2999, 3000}
MaxMsValues == {0, 500, 800, DEFAULT_MAX_MS, 5000}

InitSegmenter ==
    /\ IngestIdle
    /\ PacerIdle
    /\ call \in [fn : {"should_cut_segment"}, text : SegTexts,
                  silence_ms : SilenceValues, max_ms : MaxMsValues,
                  done : {FALSE}, result : {FALSE}]
    /\ DefaultConfig
    /\ BotIdle

\* should_cut_segment(text, silence_ms, max_ms) is called and returns.
ShouldCutCall ==
    /\ call.fn = "should_cut_segment"
    /\ ~call.done
    /\ call' = [call EXCEPT !.done = TRUE,
                            !.result = should_cut_segment(call.text, call.silence_ms,
                                                          call.max_ms)]
    /\ UNCHANGED <<pacerVars, ingestVars, TTS_OUTPUT_SAMPLE_RATE, translation_queue>>

NextSegmenter == ShouldCutCall

SpecSegmenter == InitSegmenter /\ [][NextSegmenter]_vars

\* ------------------------------------------------------------ translator.py
\* line 9: f"__GLOSSARY_{i}__", for the one-digit indices
Digit(i) == <<"0", "1", "2", "3", "4", "5", "6", "7", "8", "9">>[i + 1]
Placeholder(i) ==
    <<"_", "_", "G", "L", "O", "S", "S", "A", "R", "Y", "_", Digit(i), "_", "_">>

\* x.startswith(p)
StartsWith(x, p) == Len(p) <= Len(x) /\ SubSeq(x, 1, Len(p)) = p

\* str.replace(old, new): the occurrences of old, found from the left and not
\* overlapping, each replaced by new (with an empty old, new is put before
\* every character and at the end).
RECURSIVE Replace(_, _, _)
Replace(x, old, new) ==
    IF x = <<>> THEN (IF old = <<>> THEN new ELSE <<>>)
    ELSE IF old = <<>> THEN new \o <<Head(x)>> \o Replace(Tail(x), old, new)
    ELSE IF StartsWith(x, old)
           THEN new \o Replace(SubSeq(x, Len(old) + 1, Len(x)), old, new)
    ELSE <<Head(x)>> \o Replace(Tail(x), old, new)

\* line 8: sorted(glossary_terms, key=len, reverse=True); the sort is stable,
\* terms of equal length keep the order of the file.
RECURSIVE SortedByLen(_)
SortedByLen(glossary_terms) ==
    IF glossary_terms = <<>> THEN <<>>
    ELSE LET n == Len(glossary_terms)
             t == glossary_terms[n]
             r == SortedByLen(SubSeq(glossary_terms, 1, n - 1))
             k == Cardinality({i \in 1..Len(r) : Len(r[i]) >= Len(t)})
         IN  SubSeq(r, 1, k) \o <<t>> \o SubSeq(r, k + 1, Len(r))

\* lines 13-17: the terms replaced by their placeholders, one term after the
\* other in the order of placeholder_map (from term i on)
RECURSIVE Protect(_, _, _)
Protect(text, terms_sorted, i) ==
    IF i > Len(terms_sorted) THEN text
    ELSE Protect(Replace(text, terms_sorted[i], Placeholder(i - 1)), terms_sorted, i + 1)

\* lines 34-37: the placeholders replaced by their terms, in the same order
RECURSIVE Restore(_, _, _)
Restore(text, terms_sorted, i) ==
    IF i > Len(terms_sorted) THEN text
    ELSE Restore(Replace(text, Placeholder(i - 1), terms_sorted[i]), terms_sorted, i + 1)

\* A translation that leaves the n placeholders intact and changes every
\* other character.
RECURSIVE Mask(_, _)
Mask(x, n) ==
    IF x = <<>> THEN <<>>
    ELSE IF \E i \in 0..(n - 1) : StartsWith(x, Placeholder(i))
           THEN SubSeq(x, 1, Len(Placeholder(0)))
                  \o Mask(SubSeq(x, Len(Placeholder(0)) + 1, Len(x)), n)
    ELSE <<"x">> \o Mask(Tail(x), n)

\* What the provider makes of one text of the request body.
Provide(how, text, n) == IF how = "echo" THEN text ELSE Mask(text, n)

\* line 21: the provider's answer to the request body.  The status, whether
\* the payload is a list, and the shape of each item are the provider's
\* choice: an item has a "translations" list with one entry ("full"), has
\* an empty one ("empty"), or has no such key ("nokey").
Payload(provider, body, n) ==
    [i \in 1..Len(provider.shape) |->
        [kind |-> provider.shape[i],
         text |-> IF i <= Len(body) THEN Provide(provider.how, body[i], n)
                  ELSE <<"x">>]]

\* line 30: the items that have the key "translations", in order
RECURSIVE Kept(_)
Kept(items) ==
    IF items = <<>> THEN <<>>
    ELSE IF Head(items).kind # "nokey" THEN <<Head(items)>> \o Kept(Tail(items))
    ELSE Kept(Tail(items))

NoResult == [raises |-> "none", output |-> <<>>, posts |-> 0, body |-> <<>>]

\* lines 4-39.  The result says how the call ended (raises), what it returned
\* (output), how many requests it made (posts) and what it sent (body).
translate_texts(texts, glossary_terms, provider) ==
    LET terms_sorted == SortedByLen(glossary_terms)
        n == Len(terms_sorted)
        protected_texts == [i \in 1..Len(texts) |-> Protect(texts[i], terms_sorted, 1)]
        parsed == Payload(provider, protected_texts, n)
        kept == Kept(parsed)
        Raise(e) == [raises |-> e, output |-> <<>>, posts |-> 1, body |-> protected_texts]
    IN  IF provider.status # 200 THEN Raise("RuntimeError")
        ELSE IF ~provider.is_list THEN Raise("RuntimeError")
        ELSE IF \E i \in 1..Len(kept) : kept[i].kind = "empty" THEN Raise("IndexError")
        ELSE [raises |-> "none",
              output |-> [i \in 1..Len(kept) |-> Restore(kept[i].text, terms_sorted, 1)],
              posts |-> 1, body |-> protected_texts]

\* The glossary files, the inputs and the providers translate_texts is tried
\* with.
NY == <<"N", "Y">>
NYC == <<"N", "Y", "C">>
GlossaryFiles ==
    { <<>>, <<NY>>, <<NY, NYC>>, <<NYC, NY>>, <<<<"Y", "C">>, NYC>>,
      <<<<"_">>>>, <<<<"G", "L", "O", "S", "S", "A", "R", "Y">>>>,
      <<<<"0">>, <<"A", "0">>>>, <<<<"A", "0">>, <<"0">>>> }
TextLists ==
    { <<>>, <<NYC>>, <<<<"i", " ", "N", "Y", "C", ".", " ", "N", "Y">>>>,
      <<NY, <<"a", "_", "b">>>>, <<Placeholder(0)>>, <<<<"A", "0", " ", "0">>>> }
ItemKinds == {"full", "empty", "nokey"}
Shapes == {<<>>} \cup {<<a>> : a \in ItemKinds}
            \cup {<<a, b>> : a \in ItemKinds, b \in ItemKinds}
Providers ==
    [status : {200, 500}, is_list : BOOLEAN, shape : Shapes, how : {"echo", "mask"}]

InitTranslator ==
    /\ IngestIdle
    /\ PacerIdle
    /\ call \in [fn : {"translate_texts"}, texts : TextLists,
                  glossary_terms : GlossaryFiles, provider : Providers,
                  done : {FALSE}, result : {NoResult}]
    /\ DefaultConfig
    /\ BotIdle

\* translate_texts(texts, ..., glossary_terms) is called and ends.
TranslateCall ==
    /\ call.fn = "translate_texts"
    /\ ~call.done
    /\ call' = [call EXCEPT !.done = TRUE,
                            !.result = translate_texts(call.texts, call.glossary_terms,
                                                       call.provider)]
    /\ UNCHANGED <<pacerVars, ingestVars, TTS_OUTPUT_SAMPLE_RATE, translation_queue>>

NextTranslator == TranslateCall

SpecTranslator == InitTranslator /\ [][NextTranslator]_vars

\* --------------------------------------------------------------- stream_pcm
\* azure_tts.py lines 24-64, followed in call: events are the synthesizing
\* events the SDK thread has fired (the number of the event, 0 when its
\* audio_data is empty), ended says that synthesis_completed or
\* synthesis_canceled has fired, callbacks are those handed to
\* call_soon_threadsafe and not yet run, queue and done are the generator's
\* queue and event, yielded is what the consumer has received.
NewStream ==
    [fn |-> "stream_pcm", pc |-> "new", events |-> <<>>, ended |-> FALSE,
     callbacks |-> <<>>, queue |-> <<>>, done |-> FALSE, yielded |-> <<>>]

InitStream ==
    /\ IngestIdle
    /\ PacerIdle
    /\ DefaultConfig
    /\ BotIdle
    /\ call = NewStream

StreamStep(c) ==
    /\ call.fn = "stream_pcm"
    /\ call' = c
    /\ UNCHANGED <<pacerVars, ingestVars, TTS_OUTPUT_SAMPLE_RATE, translation_queue>>

\* lines 28-57, the first __anext__: the handlers are connected, synthesis
\* is started, and the loop waits in wait_for(queue.get()).
StartSpeaking ==
    /\ call.pc = "new"
    /\ StreamStep([call EXCEPT !.pc = "wait"])

\* lines 43-46, on the SDK thread: on_synth hands non-empty audio to the loop.
OnSynth(audio) ==
    LET n == Len(call.events) + 1
        chunk == IF audio THEN n ELSE 0
    IN  /\ call.pc \in {"wait", "finished"}
        /\ ~call.ended
        /\ n <= MaxChunks
        /\ StreamStep([call EXCEPT
               !.events = Append(@, chunk),
               !.callbacks = IF audio THEN Append(@, <<"put_nowait", chunk>>) ELSE @])

\* lines 48-53, on the SDK thread: synthesis completed or was canceled.
OnDone ==
    /\ call.pc \in {"wait", "finished"}
    /\ ~call.ended
    /\ StreamStep([call EXCEPT !.ended = TRUE,
                                !.callbacks = Append(@, <<"set", 0>>)])

\* The event loop runs the oldest callback while the generator is suspended.
RunCallback ==
    LET cb == Head(call.callbacks)
    IN  /\ call.pc \in {"wait", "finished"}
        /\ call.callbacks # <<>>
        /\ StreamStep([call EXCEPT
               !.callbacks = Tail(@),
               !.queue = IF cb[1] = "put_nowait" THEN Append(@, cb[2]) ELSE @,
               !.done = IF cb[1] = "set" THEN TRUE ELSE @])

\* A loop test that ends as soon as done is set.
DoneOnly(c) == c.done

\* line 58: done.is_set() and queue.empty()
LoopEnds(c) == c.done /\ c.queue = <<>>

AfterLoopTest(c) == [c EXCEPT !.pc = IF LoopEnds(c) THEN "finished" ELSE "wait"]

\* lines 60-64 and 58: queue.get() returns a chunk, it is yielded, the
\* consumer asks for the next one and the loop test is made.
GetChunk ==
    /\ call.pc = "wait"
    /\ call.queue # <<>>
    /\ StreamStep(AfterLoopTest([call EXCEPT
           !.queue = Tail(@), !.yielded = Append(@, Head(call.queue))]))

\* lines 60-63 and 58: 0.1 s pass with the queue empty, then the loop test.
GetTimeout ==
    /\ call.pc = "wait"
    /\ call.queue = <<>>
    /\ StreamStep(AfterLoopTest(call))

NextStream ==
    \/ StartSpeaking
    \/ \E audio \in BOOLEAN : OnSynth(audio)
    \/ OnDone
    \/ RunCallback
    \/ GetChunk
    \/ GetTimeout

SpecStream == InitStream /\ [][NextStream]_vars

\* The event loop keeps running: callbacks are run, and the generator is
\* resumed when a chunk is there or the 0.1 s are over.
FairStream ==
    SpecStream /\ WF_vars(RunCallback) /\ WF_vars(GetChunk) /\ WF_vars(GetTimeout)

\* ------------------------------------------- bot.py: SequentialTranslationQueue
BotStep(q) ==
    /\ translation_queue' = q
    /\ UNCHANGED <<pacerVars, ingestVars, call, TTS_OUTPUT_SAMPLE_RATE>>

\* A guard that looks at the task's existence only (done() left out).
DrainExists(q) == q.drain_task # 0

\* line 162: self._drain_task and not self._drain_task.done()
DrainRunning(q) == q.drain_task # 0 /\ q.drains[q.drain_task].pc # "done"

NewDrainId(q) == Cardinality({d \in DrainIds : q.drains[d].pc # "unborn"}) + 1

\* lines 152-157 and 161-164: process_frame for a downstream LLMTextFrame: it is
\* put on the queue (unbounded: put does not wait), and _ensure_drain makes a
\* task of _drain_queue unless one is there that has not ended.
ProcessFrame ==
    LET q == translation_queue
        frame == q.seen + 1
        q1 == [q EXCEPT !.seen = frame, !.queue = Append(@, frame),
                        !.put = Append(@, frame)]
    IN  /\ frame <= MaxFrames
        /\ BotStep(IF DrainRunning(q1) THEN q1
                   ELSE [q1 EXCEPT !.drain_task = NewDrainId(q),
                                   !.drains[NewDrainId(q)].pc = "created"])

\* lines 152-159, the else branch: any other frame (not an LLMTextFrame, or
\* one going upstream) is pushed by process_frame itself, past the queue.
PassFrame ==
    LET q == translation_queue
        frame == q.seen + 1
    IN  /\ frame <= MaxFrames
        /\ BotStep([q EXCEPT !.seen = frame, !.pushed = Append(@, frame)])

\* lines 168-178, from the loop test to the next await: with the queue empty
\* the loop ends, the lock is released and the task is done; else the head is
\* taken and push_frame is called with it.
LoopTest(q, d) ==
    IF q.queue = <<>>
      THEN [q EXCEPT !.drain_lock = 0, !.drains[d] = [pc |-> "done", frame |-> 0]]
      ELSE [q EXCEPT !.queue = Tail(@),
                     !.drains[d] = [pc |-> "pushing", frame |-> Head(q.queue)]]

\* line 167: the task starts and takes the lock (a task that found the lock
\* held would wait for it here; none ever does).
DrainStart(d) ==
    LET q == translation_queue
    IN  /\ q.drains[d].pc = "created"
        /\ q.drain_lock = 0
        /\ BotStep(LoopTest([q EXCEPT !.drain_lock = d], d))

\* lines 178-191 and 168: push_frame returns with the frame handed
\* downstream, task_done, and the loop test again.
PushReturns(d) ==
    LET q == translation_queue
    IN  /\ q.drains[d].pc = "pushing"
        /\ BotStep(LoopTest([q EXCEPT !.pushed = Append(@, q.drains[d].frame)], d))

NextBot ==
    \/ ProcessFrame
    \/ PassFrame
    \/ \E d \in DrainIds : DrainStart(d)
    \/ \E d \in DrainIds : PushReturns(d)

SpecBot == Init /\ [][NextBot]_vars

\* The event loop runs every task that can run.
FairBot ==
    SpecBot /\ \A d \in DrainIds : WF_vars(DrainStart(d)) /\ WF_vars(PushReturns(d))

\* ---------------------------------------------------------- handle_session
RECV_TIMEOUT_MS == 200          \* wait_for(ws.receive(), timeout=0.2)
PERF_STEP_MS == 400             \* the steps in which perf_counter is followed
MAX_SEGMENT_CHARS == 20
MAX_SEGMENT_HARD_CHARS == 40
BYTES_PER_SAMPLE == 2

IngestSessions == {"S1"}        \* the sessions whose ingest loop is followed
IngestTargets == {"hi-IN"}      \* the target their handshake names

Word(n) == [i \in 1..n |-> "a"]

\* evt.result.text of a recognized event: nothing, blanks, a fragment ending
\* in "." (padded), one ending in the danda, and a long unpunctuated one.
RawTexts ==
    { <<>>, <<" ">>, <<" ", "a", ".", " ">>, <<"a", "danda">>,
      Word(MAX_SEGMENT_HARD_CHARS) }

FrameBytes == {12800}           \* payload size of an audio frame (400 ms)
ControlTexts == {"EOF", "ping"} \* text messages a client may send

\* What translate_texts does on one call: it raises, or returns a list.
TranslateResults ==
    { [raises |-> TRUE, list |-> <<>>],
      [raises |-> FALSE, list |-> <<>>],
      [raises |-> FALSE, list |-> <<"namaste">>] }

TARGET_LANG == "hi-IN"          \* config.py line 13

\* line 78: meta.get("target") or (meta.get("targets", [])[:1] or [TARGET_LANG])[0]
TargetOf(meta) ==
    IF meta.target # "" THEN meta.target
    ELSE IF meta.targets # <<>> THEN meta.targets[1]
    ELSE TARGET_LANG

\* The handshake records a client may send.
Metas ==
    { NoMeta, [target |-> "fr-FR", targets |-> <<>>],
      [target |-> "", targets |-> <<"hi-IN", "fr-FR">>],
      [target |-> "", targets |-> <<"fr-FR", "hi-IN">>] }

\* lines 74-94 (after ingest_ws.py lines 11-13): the handshake, the recognizer
\* is made and started, the locals are set.
Handshake(s, meta) ==
    /\ Quiet
    /\ ses[s].pc = "unborn"
    /\ ses' = [ses EXCEPT ![s] = [IdleSession EXCEPT !.pc = "recv", !.meta = meta,
                                                       !.target = TargetOf(meta),
                                                       !.last_loop_ts = perf]]
    /\ ws' = [ws EXCEPT ![s] = "connected"]
    /\ recognizer' = [recognizer EXCEPT ![s] = "running"]
    /\ UNCHANGED <<perf, time_ms, result_queue, scheduled, recognized, segments>>
    /\ UNCHANGED <<pacerVars, call, TTS_OUTPUT_SAMPLE_RATE, translation_queue>>

\* The handshake names the one target t.
Start(s, t) == Handshake(s, [target |-> t, targets |-> <<>>])

\* time.perf_counter() advances by one step.  It is followed while some loop
\* is running, and a running loop is never more than one step behind: its
\* receive returns within the timeout of line 98.
PerfTickUpTo(ticks) ==
    /\ Quiet
    /\ \E s \in Sessions : ses[s].pc = "recv"
    /\ \A s \in Sessions : ses[s].pc = "recv" => ses[s].last_loop_ts = perf
    /\ perf < ticks * PERF_STEP_MS
    /\ perf' = perf + PERF_STEP_MS
    /\ UNCHANGED <<time_ms, ses, ws, result_queue, scheduled, recognizer, recognized, segments>>
    /\ UNCHANGED <<pacerVars, call, TTS_OUTPUT_SAMPLE_RATE, translation_queue>>

PerfTick == PerfTickUpTo(MaxPerfTicks)

\* time.time() reaches the next millisecond.  Nothing in the loop makes it do
\* so between two reads: the time between two cuts is that of the calls made
\* in between, and the wall clock may be set back by as much.
MsTick ==
    /\ time_ms < MaxMs
    /\ time_ms' = time_ms + 1
    /\ UNCHANGED <<perf, ses, ws, result_queue, scheduled, recognizer,
                   recognized, segments>>
    /\ UNCHANGED <<pacerVars, call, TTS_OUTPUT_SAMPLE_RATE, translation_queue>>

\* lines 88-91, on the recognizer's thread: a recognized event; its stripped
\* text, when not empty, is handed to the loop with call_soon_threadsafe.
Recognize(s, raw) ==
    LET text == Strip(raw)
    IN  /\ recognizer[s] = "running"
        /\ Len(recognized[s]) < MaxFragments
        /\ IF text # <<>>
             THEN /\ scheduled' = [scheduled EXCEPT ![s] = Append(@, text)]
                  /\ recognized' = [recognized EXCEPT ![s] = Append(@, text)]
             ELSE UNCHANGED <<scheduled, recognized>>
        /\ UNCHANGED <<perf, time_ms, ses, ws, result_queue, recognizer, segments>>
        /\ UNCHANGED <<pacerVars, call, TTS_OUTPUT_SAMPLE_RATE, translation_queue>>

\* line 91, on the event loop: the oldest scheduled callback runs,
\* result_queue.put_nowait(text).
Deliver(s) ==
    /\ Quiet
    /\ scheduled[s] # <<>>
    /\ scheduled' = [scheduled EXCEPT ![s] = Tail(@)]
    /\ result_queue' = [result_queue EXCEPT ![s] = Append(@, Head(scheduled[s]))]
    /\ UNCHANGED <<perf, time_ms, ses, ws, recognizer, recognized, segments>>
    /\ UNCHANGED <<pacerVars, call, TTS_OUTPUT_SAMPLE_RATE, translation_queue>>

\* The buffer overwritten by the new fragment.
OverwriteFragment(buffer_text, text) == text

\* line 111
JoinFragment(buffer_text, text) ==
    IF buffer_text # <<>> THEN Strip(buffer_text \o <<" ">> \o text) ELSE text

\* lines 109-113: the queue is emptied into the buffer, oldest fragment first
RECURSIVE Drained(_, _)
Drained(buffer_text, q) ==
    IF q = <<>> THEN buffer_text
    ELSE Drained(JoinFragment(buffer_text, Head(q)), Tail(q))

\* line 104
FrameMs(len) == (len * 1000) \div (BYTES_PER_SAMPLE * SAMPLE_RATE)

\* line 122
OverSoftLimit(buffer_text) ==
    Len(buffer_text) >= MAX_SEGMENT_CHARS /\ EndsWith(Strip(buffer_text), TerminalMarks)

\* No hard limit.
NeverOverHardLimit(buffer_text) == FALSE

\* line 123
OverHardLimit(buffer_text) == Len(buffer_text) >= MAX_SEGMENT_HARD_CHARS

\* The buffer kept after a cut.
BufferKept(buffer_text) == buffer_text

\* line 128
BufferAfterCut(buffer_text) == <<>>

\* line 126: f"{session_id}-{int(time.time() * 1000)}"
ChunkId(s) == <<s, time_ms>>

\* A cut whatever the buffer holds.
AnyBuffer(buffer_text) == TRUE

\* line 125: "if buffer_text and (...)"
HasText(buffer_text) == buffer_text # <<>>

\* lines 109-129, for the values the iteration works with: the buffer after
\* the queue was emptied into it, the silence counter, the idle time, and
\* whether to cut.  sil is the silence counter as the message left it.
Iteration(s, sil) ==
    LET S == ses[s]
        buffer_text == Drained(S.buffer_text, result_queue[s])
        last_recognized_ts == IF result_queue[s] # <<>> THEN perf
                              ELSE S.last_recognized_ts
        elapsed_ms == perf - S.last_loop_ts
        silence_ms == Min(2000, sil + elapsed_ms)
        idle_ms == IF last_recognized_ts # None THEN perf - last_recognized_ts ELSE 0
        should_cut == \/ should_cut_segment(buffer_text, silence_ms, DEFAULT_MAX_MS)
                      \/ (buffer_text # <<>> /\ idle_ms >= 2000)
    IN  [buffer_text |-> buffer_text, last_recognized_ts |-> last_recognized_ts,
         silence_ms |-> silence_ms, idle_ms |-> idle_ms,
         cut |-> /\ HasText(buffer_text)
                 /\ \/ should_cut
                    \/ OverSoftLimit(buffer_text)
                    \/ OverHardLimit(buffer_text)]

\* lines 109-129 and 134-148: the rest of an iteration after the message was
\* looked at.  With a cut, process_segment: translate_texts (result tr), then
\* _enqueue_tts; an error of the translation leaves handle_session.
LoopBody(s, sil, tr) ==
    LET S == ses[s]
        I == Iteration(s, sil)
        S1 == [S EXCEPT !.buffer_text = I.buffer_text,
                        !.last_recognized_ts = I.last_recognized_ts,
                        !.last_loop_ts = perf, !.silence_ms = I.silence_ms]
        translated == IF tr.list # <<>> THEN tr.list[1] ELSE ""
        segment == [text |-> I.buffer_text, chunk_id |-> ChunkId(s),
                    job |-> IF tr.raises THEN 0 ELSE njobs + 1]
    IN  /\ result_queue' = [result_queue EXCEPT ![s] = <<>>]
        /\ IF ~I.cut
             THEN /\ ses' = [ses EXCEPT ![s] = S1]
                  /\ UNCHANGED <<segments, pacerVars>>
             ELSE /\ segments' = [segments EXCEPT ![s] = Append(@, segment)]
                  /\ IF tr.raises
                       THEN /\ ses' = [ses EXCEPT ![s] =
                                         [S1 EXCEPT !.pc = "raised", !.exc = "translate"]]
                            /\ UNCHANGED pacerVars
                       ELSE /\ ses' = [ses EXCEPT ![s] =
                                         [S1 EXCEPT !.buffer_text = BufferAfterCut(@),
                                                    !.silence_ms = 0]]
                            /\ Enqueue(s, S.target, translated)
        /\ UNCHANGED <<perf, time_ms, scheduled, recognizer, recognized, call, TTS_OUTPUT_SAMPLE_RATE, translation_queue>>

\* lines 98-105: an audio frame of len bytes is received
RecvBytes(s, len, tr) ==
    /\ Quiet
    /\ ses[s].pc = "recv"
    /\ ws[s] = "connected"
    /\ ws' = ws
    /\ LoopBody(s, Max(0, ses[s].silence_ms - FrameMs(len)), tr)

\* An "EOF" text treated like any other text.
NeverEOF(x) == FALSE

\* line 106
IsEOF(x) == x = "EOF"

\* lines 98-107 and 131: a text message is received; "EOF" leaves the loop
\* and stops the recognizer, with any other text the iteration goes on.
\* ws keeps that the client's EOF has been delivered.
RecvText(s, x, tr) ==
    /\ Quiet
    /\ ses[s].pc = "recv"
    /\ ws[s] = "connected"
    /\ ws' = IF x = "EOF" THEN [ws EXCEPT ![s] = "eof"] ELSE ws
    /\ IF IsEOF(x)
         THEN /\ ses' = [ses EXCEPT ![s].pc = "closed"]
              /\ recognizer' = [recognizer EXCEPT ![s] = "stopped"]
              /\ UNCHANGED <<perf, time_ms, result_queue, scheduled, recognized, segments>>
              /\ UNCHANGED <<pacerVars, call, TTS_OUTPUT_SAMPLE_RATE, translation_queue>>
         ELSE LoopBody(s, ses[s].silence_ms, tr)

\* ws.receive() awaited with no timeout.
NoTimeout(s) == FALSE

\* line 98: wait_for gives up after the timeout
TimedOut(s) == perf - ses[s].last_loop_ts >= RECV_TIMEOUT_MS

\* lines 98-100: no message within the timeout
RecvTimeout(s, tr) ==
    /\ Quiet
    /\ ses[s].pc = "recv"
    /\ ws[s] = "connected"
    /\ TimedOut(s)
    /\ ws' = ws
    /\ LoopBody(s, ses[s].silence_ms, tr)

\* lines 98-106: the client has gone; ws.receive() returns the disconnect
\* message, which has neither "bytes" nor "text", and the iteration goes on.
RecvDisconnect(s, tr) ==
    /\ Quiet
    /\ ses[s].pc = "recv"
    /\ ws[s] = "connected"
    /\ ws' = [ws EXCEPT ![s] = "disconnected"]
    /\ LoopBody(s, ses[s].silence_ms, tr)

\* line 98: ws.receive() after the disconnect message raises RuntimeError,
\* which is no TimeoutError: it leaves handle_session before line 131.
RecvRaises(s) ==
    /\ Quiet
    /\ ses[s].pc = "recv"
    /\ ws[s] = "disconnected"
    /\ ses' = [ses EXCEPT ![s].pc = "raised", ![s].exc = "receive"]
    /\ UNCHANGED <<perf, time_ms, ws, result_queue, scheduled, recognizer, recognized, segments>>
    /\ UNCHANGED <<pacerVars, call, TTS_OUTPUT_SAMPLE_RATE, translation_queue>>

\* ------------------------------------------ the call of translate_texts
\* An exception that ends every running session.
RaiseAll(s, what) ==
    ses' = [r \in Sessions |->
              IF r = s \/ ses[r].pc = "recv"
                THEN [ses[r] EXCEPT !.pc = "raised", !.exc = what]
                ELSE ses[r]]

\* An exception leaves handle_session: the coroutine of session s ends, its
\* locals stay as they were.
Raise(s, what) == ses' = [ses EXCEPT ![s].pc = "raised", ![s].exc = what]

\* lines 109-137: the rest of an iteration after the message was looked at,
\* up to the call of translate_texts in process_segment.  With a cut the
\* segment is made and the session is inside the call.
IterationToCall(s, sil) ==
    LET S == ses[s]
        I == Iteration(s, sil)
        S1 == [S EXCEPT !.buffer_text = I.buffer_text,
                        !.last_recognized_ts = I.last_recognized_ts,
                        !.last_loop_ts = perf, !.silence_ms = I.silence_ms]
        segment == [text |-> I.buffer_text, chunk_id |-> ChunkId(s), job |-> 0]
    IN  /\ result_queue' = [result_queue EXCEPT ![s] = <<>>]
        /\ IF I.cut
             THEN /\ ses' = [ses EXCEPT ![s] = [S1 EXCEPT !.pc = "translate"]]
                  /\ segments' = [segments EXCEPT ![s] = Append(@, segment)]
             ELSE /\ ses' = [ses EXCEPT ![s] = S1]
                  /\ segments' = segments
        /\ UNCHANGED <<perf, time_ms, scheduled, recognizer, recognized>>
        /\ UNCHANGED <<pacerVars, call, TTS_OUTPUT_SAMPLE_RATE, translation_queue>>

\* lines 98-105 and on to the call: an audio frame of len bytes is received
RecvBytesToCall(s, len) ==
    /\ Quiet
    /\ ses[s].pc = "recv"
    /\ ws[s] = "connected"
    /\ ws' = ws
    /\ IterationToCall(s, Max(0, ses[s].silence_ms - FrameMs(len)))

\* lines 98-106 and on to the call: the disconnect message is received
RecvDisconnectToCall(s) ==
    /\ Quiet
    /\ ses[s].pc = "recv"
    /\ ws[s] = "connected"
    /\ ws' = [ws EXCEPT ![s] = "disconnected"]
    /\ IterationToCall(s, ses[s].silence_ms)

\* line 103: an audio frame is received and audio_stream.write raises
WriteRaises(s) ==
    /\ Quiet
    /\ ses[s].pc = "recv"
    /\ ws[s] = "connected"
    /\ Raise(s, "recognizer")
    /\ UNCHANGED <<perf, time_ms, ws, result_queue, scheduled, recognizer,
                   recognized, segments>>
    /\ UNCHANGED <<pacerVars, call, TTS_OUTPUT_SAMPLE_RATE, translation_queue>>

\* A queue with room for one job: put waits while a job is queued.
PutWaits(t) == tts_queues[t] # <<>>

\* line 63: the queues are made by asyncio.Queue() with no maxsize, and
\* line 146, the put on such a queue, never waits.
PutSuspends(t) == FALSE

\* lines 137-148 and 128-129: translate_texts ends (result tr).  It raises,
\* which leaves handle_session; or it returns, the job is put on the queue
\* of the target and the loop goes on with an empty buffer.
TranslateReturns(s, tr) ==
    LET S == ses[s]
        translated == IF tr.list # <<>> THEN tr.list[1] ELSE ""
    IN  /\ S.pc = "translate"
        /\ IF tr.raises
             THEN /\ Raise(s, "translate")
                  /\ UNCHANGED <<segments, pacerVars>>
             ELSE /\ njobs < MaxJobs
                  /\ segments' = [segments EXCEPT ![s][Len(segments[s])].job = njobs + 1]
                  /\ ses' = [ses EXCEPT ![s] =
                               IF PutSuspends(S.target)
                                 THEN [S EXCEPT !.pc = "put"]
                                 ELSE [S EXCEPT !.pc = "recv",
                                                !.buffer_text = BufferAfterCut(@),
                                                !.silence_ms = 0]]
                  /\ Put(s, S.target, translated)
        /\ UNCHANGED <<perf, time_ms, ws, result_queue, scheduled, recognizer,
                       recognized, call, TTS_OUTPUT_SAMPLE_RATE, translation_queue>>

\* ---------------------------------------------------------- specifications
WorkerStep(w) ==
    \/ Dequeue(w)
    \/ Park(w)
    \/ Begin(w)
    \/ MetaSend(w)
    \/ SynthFail(w)
    \/ AudioSend(w)

\* The pacer under load and over time: two listeners are connected from the
\* start and stay; jobs of both sessions arrive for both targets.
Listening ==
    /\ IngestIdle
    /\ now = 0
    /\ tts_queues = [t \in Targets |-> <<>>]
    /\ tts_tasks = [t \in Targets |-> 0]
    /\ tts_locks = [t \in Targets |-> 0]
    /\ tts_expected_end = [t \in Targets |-> 0]
    /\ tts_last_duration = [t \in Targets |-> 0]
    /\ tasks = [w \in TaskIds |-> IdleTask]
    /\ SUBS = [s \in Sessions |-> [t \in {"hi-IN"} |->
                  IF s = "S1" THEN <<"c1">> ELSE <<"c2">>]]
    /\ conn = [c \in Conns |->
                  [st |-> "open", session |-> IF c = "c1" THEN "S1" ELSE "S2",
                   target |-> "hi-IN"]]
    /\ inbox = [c \in Conns |-> << <<"hello", 0>> >>]
    /\ njobs = 0
    /\ hist = [t \in Targets |-> <<>>]
    /\ played = [t \in Targets |-> <<>>]

InitPacer ==
    /\ Listening
    /\ call = NoCall
    /\ DefaultConfig
    /\ BotIdle

NextPacer ==
    \/ Tick
    \/ \E s \in Sessions, t \in Targets : EnqueueTts(s, t, "namaste")
    \/ \E w \in TaskIds : WorkerStep(w)
    \/ \E w \in TaskIds : Resume(w)
    \/ \E w \in TaskIds, d \in Durations : SynthDone(w, d)

SpecPacer == InitPacer /\ [][NextPacer]_vars

\* The service started with a sample rate from the environment: a supported
\* one, or one format_map has no entry for.  Sessions connect and jobs are
\* enqueued as with any configuration.
SampleRates == {SAMPLE_RATE, 22050}

InitConfig ==
    /\ Listening
    /\ call = NoCall
    /\ TTS_OUTPUT_SAMPLE_RATE \in SampleRates
    /\ BotIdle

NextConfig ==
    \/ \E s \in IngestSessions, t \in IngestTargets : Start(s, t)
    \/ \E s \in Sessions, t \in Targets : EnqueueTts(s, t, "namaste")
    \/ \E w \in TaskIds : WorkerStep(w)
    \/ \E w \in TaskIds, d \in ShortDurations : SynthDone(w, d)

SpecConfig == InitConfig /\ [][NextConfig]_vars

\* The registry under connects and disconnects: listeners come and go while
\* jobs are fanned out.  Clips are no longer than the lead time, so that the
\* pacer never has to sleep and the clock can stand still.
NextFanout ==
    \/ \E s \in FanSessions, t \in Targets, x \in Texts : EnqueueTts(s, t, x)
    \/ \E w \in TaskIds : WorkerStep(w)
    \/ \E w \in TaskIds, d \in ShortDurations : SynthDone(w, d)
    \/ \E c \in Conns, s \in FanSessions, t \in Targets : Subscribe(c, s, t)
    \/ \E c \in Conns : Close(c)
    \/ \E c \in Conns : Cleanup(c)

SpecFanout == Init /\ [][NextFanout]_vars

\* One session's ingest loop over time: audio frames, text messages,
\* timeouts and the end of the connection, with fragments arriving from the
\* recognizer; the jobs it enqueues stay in the pacer's queue.
NextIngest ==
    \/ \E s \in IngestSessions, t \in IngestTargets : Start(s, t)
    \/ PerfTick
    \/ \E s \in IngestSessions, raw \in RawTexts : Recognize(s, raw)
    \/ \E s \in IngestSessions : Deliver(s)
    \/ \E s \in IngestSessions, len \in FrameBytes, tr \in TranslateResults :
          RecvBytes(s, len, tr)
    \/ \E s \in IngestSessions, x \in ControlTexts, tr \in TranslateResults :
          RecvText(s, x, tr)
    \/ \E s \in IngestSessions, tr \in TranslateResults : RecvTimeout(s, tr)
    \/ \E s \in IngestSessions, tr \in TranslateResults : RecvDisconnect(s, tr)
    \/ \E s \in IngestSessions : RecvRaises(s)

SpecIngest == InitPacer /\ [][NextIngest]_vars

\* From the recognizer to the listeners: one session's loop, driven by the
\* messages of its client with the clock standing still, and the pacer
\* workers that take the jobs it enqueues.
NextPipeline ==
    \/ \E s \in IngestSessions, t \in Targets : Start(s, t)
    \/ \E s \in IngestSessions, raw \in RawTexts : Recognize(s, raw)
    \/ \E s \in IngestSessions : Deliver(s)
    \/ \E s \in IngestSessions, len \in FrameBytes, tr \in TranslateResults :
          RecvBytes(s, len, tr)
    \/ \E s \in IngestSessions, x \in ControlTexts, tr \in TranslateResults :
          RecvText(s, x, tr)
    \/ \E s \in IngestSessions, tr \in TranslateResults : RecvDisconnect(s, tr)
    \/ \E s \in IngestSessions : RecvRaises(s)
    \/ \E w \in TaskIds : WorkerStep(w)
    \/ \E w \in TaskIds, d \in ShortDurations : SynthDone(w, d)

SpecPipeline == InitPacer /\ [][NextPipeline]_vars

\* The segment ids of one session: its loop driven by the messages of its
\* client, with the wall clock followed in milliseconds; the jobs stay queued.
NextChunkId ==
    \/ \E s \in IngestSessions, t \in IngestTargets : Start(s, t)
    \/ MsTick
    \/ \E s \in IngestSessions, raw \in RawTexts : Recognize(s, raw)
    \/ \E s \in IngestSessions : Deliver(s)
    \/ \E s \in IngestSessions, len \in FrameBytes, tr \in TranslateResults :
          RecvBytes(s, len, tr)
    \/ \E s \in IngestSessions, x \in ControlTexts, tr \in TranslateResults :
          RecvText(s, x, tr)
    \/ \E s \in IngestSessions, tr \in TranslateResults : RecvDisconnect(s, tr)
    \/ \E s \in IngestSessions : RecvRaises(s)

SpecChunkId == InitPacer /\ [][NextChunkId]_vars

\* Two sessions side by side with the pacer workers: the call of
\* translate_texts is a position of its own, the clocks stand still.  Every
\* fragment ends a sentence, every clip is one second long, and a session
\* ends by an exception.
Sentence == <<" ", "a", ".", " ">>

NextSessions ==
    \/ \E s \in Sessions, t \in IngestTargets : Start(s, t)
    \/ \E s \in Sessions : Recognize(s, Sentence)
    \/ \E s \in Sessions : Deliver(s)
    \/ \E s \in Sessions, len \in FrameBytes : RecvBytesToCall(s, len)
    \/ \E s \in Sessions, tr \in TranslateResults : TranslateReturns(s, tr)
    \/ \E s \in Sessions : RecvDisconnectToCall(s)
    \/ \E s \in Sessions : RecvRaises(s)
    \/ \E s \in Sessions : WriteRaises(s)
    \/ \E w \in TaskIds : WorkerStep(w)
    \/ \E w \in TaskIds : SynthDone(w, 2)

SpecSessions == InitPacer /\ [][NextSessions]_vars

\* A session left alone: its client sends nothing after the handshake, the
\* loop wakes by the timeout only, and translate_texts returns.  The
\* scheduled hand-overs run before the clock's next step, and the fragments
\* are short and arrive early enough for the time that is followed.
TranslationReturns == {tr \in TranslateResults : ~tr.raises}

\* The fragments that stay below the soft limit.
ShortTexts == {raw \in RawTexts : Len(raw) < MAX_SEGMENT_CHARS}

PromptTick ==
    /\ \A s \in Sessions : scheduled[s] = <<>>
    /\ PerfTick

EarlyRecognize(s, raw) ==
    /\ perf + 3 * PERF_STEP_MS <= MaxPerfTicks * PERF_STEP_MS
    /\ Recognize(s, raw)

NextIdle ==
    \/ \E s \in IngestSessions, t \in IngestTargets : Start(s, t)
    \/ PromptTick
    \/ \E s \in IngestSessions, raw \in ShortTexts : EarlyRecognize(s, raw)
    \/ \E s \in IngestSessions : Deliver(s)
    \/ \E s \in IngestSessions, tr \in TranslationReturns : RecvTimeout(s, tr)

\* Time passes, the event loop runs the callbacks it was given, and the
\* timer of wait_for fires.
FairIdle ==
    /\ WF_vars(PromptTick)
    /\ WF_vars(\E s \in IngestSessions : Deliver(s))
    /\ WF_vars(\E s \in IngestSessions, tr \in TranslationReturns : RecvTimeout(s, tr))

SpecIdle == InitPacer /\ [][NextIdle]_vars /\ FairIdle

\* The silence counter over a longer time: one session with short
\* fragments, audio frames and timeouts, and translations that return.
NextSilence ==
    \/ \E s \in IngestSessions, t \in IngestTargets : Start(s, t)
    \/ PerfTickUpTo(MaxSilenceTicks)
    \/ \E s \in IngestSessions, raw \in ShortTexts : Recognize(s, raw)
    \/ \E s \in IngestSessions : Deliver(s)
    \/ \E s \in IngestSessions, len \in FrameBytes, tr \in TranslationReturns :
          RecvBytes(s, len, tr)
    \/ \E s \in IngestSessions, tr \in TranslationReturns : RecvTimeout(s, tr)

SpecSilence == InitPacer /\ [][NextSilence]_vars

\* The targets of a session: any handshake, then the loop driven by audio
\* frames; the jobs stay queued.
NextTargets ==
    \/ \E s \in IngestSessions, meta \in Metas : Handshake(s, meta)
    \/ \E s \in IngestSessions, raw \in RawTexts : Recognize(s, raw)
    \/ \E s \in IngestSessions : Deliver(s)
    \/ \E s \in IngestSessions, len \in FrameBytes, tr \in TranslateResults :
          RecvBytes(s, len, tr)

SpecTargets == InitPacer /\ [][NextTargets]_vars

\* ------------------------------------------------------------------ claims
JobOf(e) == e[2]
IsBroadcast(e) == e[1] \in {"meta", "audio"}
Has(c, m) == m \in Range(inbox[c])
Registered(c, s, t) == c \in Range(Bucket(SUBS, s, t))

\* C1: per target, jobs leave the queue in the order they were put on it
\* (jobs are numbered by enqueue, whatever their session), and everything the
\* worker then does (dequeue, metadata fan-out, synthesis, audio fan-out)
\* happens in that same order: nothing of an earlier job follows anything of a
\* later one.
C1_FifoOrder ==
    \A t \in Targets :
      /\ \A i, j \in 1..Len(hist[t]) :
            i < j => JobOf(hist[t][i]) <= JobOf(hist[t][j])
      /\ \A i, j \in 1..Len(tts_queues[t]) :
            i < j => tts_queues[t][i].n < tts_queues[t][j].n
      /\ \A i \in 1..Len(hist[t]), j \in 1..Len(tts_queues[t]) :
            JobOf(hist[t][i]) < tts_queues[t][j].n

\* Job 1 came from session S2 and job 2 from session S1, both for hi-IN, and
\* both have been broadcast to their listeners.
C1_Witness ==
    /\ Has("c2", <<"audio", 1>>)
    /\ Has("c1", <<"audio", 2>>)

\* C2: for each target at most one job is between its dequeue and the end of
\* its delivery.
C2_OneInFlight ==
    \A t \in Targets :
      Cardinality({w \in TaskIds :
                     tasks[w].target = t /\ tasks[w].pc \in InFlight}) <= 1

\* A job is being delivered while another one waits in the same queue.
C2_Witness ==
    \E w \in TaskIds :
      /\ tasks[w].pc = "audio"
      /\ tts_queues[tasks[w].target] # <<>>

\* C3: for consecutive clips A, B delivered to the listeners of one session
\* and target, B's audio is delivered no earlier than the lead time before
\* the end of A's playback (A's delivery time plus A's length).
C3_NoOverlapBeyondLead ==
    \A t \in Targets : \A i \in 1..Len(played[t]) :
      i < Len(played[t]) /\ played[t][i].session = played[t][i + 1].session
        => played[t][i + 1].at
             >= played[t][i].at + played[t][i].dur - TTS_LEAD_TIME_SECONDS

\* C4: a job's processing (send_ts, then the synthesis) does not start before
\* expected_end - min(last_duration, lead time), both as the previous job of
\* the target left them; a worker only sleeps after some job of the target
\* has been synthesized; and the broadcasts of a later job all come after
\* those of an earlier job.
C4_Pacing ==
    \A w \in TaskIds :
      LET T == tasks[w]
          t == T.target
          earliest == tts_expected_end[t]
                        - Min(tts_last_duration[t], TTS_LEAD_TIME_SECONDS)
      IN  /\ T.pc = "begin" => now >= earliest
          /\ T.pc \in {"meta", "synth"} => T.send_ts >= earliest
          /\ T.pc = "sleep" => \E i \in 1..Len(hist[t]) : hist[t][i][1] = "synth"
          /\ T.pc \in InFlight =>
               \A i \in 1..Len(hist[t]) :
                 IsBroadcast(hist[t][i]) => JobOf(hist[t][i]) <= T.job.n
          /\ T.pc \in InFlight =>
               \A i, j \in 1..Len(hist[t]) :
                 i < j /\ IsBroadcast(hist[t][i]) /\ IsBroadcast(hist[t][j])
                   => JobOf(hist[t][i]) <= JobOf(hist[t][j])

\* A job that had to wait: it started after time 0, exactly at the earliest
\* moment the 2 s clip before it allows.
C4_Witness ==
    \E w \in TaskIds :
      LET T == tasks[w]
          t == T.target
      IN  /\ T.pc = "synth"
          /\ tts_last_duration[t] = 4
          /\ T.send_ts > 0
          /\ T.send_ts = tts_expected_end[t] - TTS_LEAD_TIME_SECONDS

\* C5: every output connection receives the handshake first and only once,
\* then metadata and audio strictly in pairs: an audio payload directly
\* follows the metadata of its job, a metadata record is directly followed by
\* the audio of its job, and a connection still open is left with a metadata
\* record as its last message only while that job is being processed (or
\* when its synthesis raised).
C5_PairedMessages ==
    \A c \in Conns :
      LET m == inbox[c]
      IN  /\ m # <<>> => m[1] = <<"hello", 0>>
          /\ \A i \in 1..Len(m) :
               /\ i > 1 => m[i][1] # "hello"
               /\ m[i][1] = "audio" => i > 1 /\ m[i - 1] = <<"meta", m[i][2]>>
               /\ m[i][1] = "meta" /\ i < Len(m) => m[i + 1] = <<"audio", m[i][2]>>
               /\ m[i][1] = "meta" /\ i = Len(m) /\ conn[c].st = "open" =>
                    \/ \E w \in TaskIds : /\ tasks[w].job.n = m[i][2]
                                          /\ tasks[w].pc \in Broadcasting
                    \/ \E t \in Targets : <<"raise", m[i][2]>> \in Range(hist[t])

\* C6: when the broadcast of a job has finished, no connection whose metadata
\* or audio send failed in it is in the bucket of (session, target), and
\* every connection still open whose sends succeeded is in it.
C6_FailedPruned ==
    \A w \in TaskIds :
      LET T == tasks[w]
      IN  T.pc = "fin" =>
            /\ \A c \in T.failed : ~Registered(c, T.job.session, T.target)
            /\ \A c \in Range(T.alive) \ T.failed :
                 conn[c].st = "open" => Registered(c, T.job.session, T.target)

\* C7: a connection that subscribed to (session, target) while a job of that
\* pair was being processed, and has not closed, is in the bucket when the
\* job has finished.
C7_NoLostSubscription ==
    \A w \in TaskIds :
      LET T == tasks[w]
      IN  T.pc = "fin" =>
            \A c \in T.joined :
              conn[c].st = "open" => Registered(c, T.job.session, T.target)

\* C8: a connection whose cleanup has run is in no registry bucket.
C8_ClosedStaysOut ==
    \A c \in Conns :
      conn[c].st = "gone" =>
        \A s \in DOMAIN SUBS : \A t \in DOMAIN SUBS[s] : c \notin Range(SUBS[s][t])

\* No job is between its start and its end, no worker was cut short by an
\* error, and no closed connection still awaits its cleanup.
RegistryIdle ==
    /\ \A w \in TaskIds :
          tasks[w].pc \notin {"begin", "meta", "synth", "audio", "fin", "done"}
    /\ \A c \in Conns : conn[c].st # "closed"

\* C9: with no registry operation in progress, the registry has no
\* (session, target) key with an empty list and no session key with an empty
\* mapping.
C9_NoEmptyKeys ==
    RegistryIdle =>
      \A s \in DOMAIN SUBS :
        /\ DOMAIN SUBS[s] # {}
        /\ \A t \in DOMAIN SUBS[s] : SUBS[s][t] # <<>>

\* C10: a failed send stops neither fan-out nor the worker: once the metadata
\* loop is over every client of the list was sent the metadata or failed,
\* once a job with audio has finished everyone alive was sent the audio or
\* failed, and a worker only ever ends by an error of the synthesis.
C10_FailureContained ==
    \A w \in TaskIds :
      LET T == tasks[w]
      IN  /\ T.pc \in {"synth", "audio", "fin"} =>
               \A c \in Range(T.clients) :
                 Has(c, <<"meta", T.job.n>>) \/ c \in T.failed
          /\ T.pc = "fin" /\ T.dur > 0 =>
               \A c \in Range(T.alive) :
                 Has(c, <<"audio", T.job.n>>) \/ c \in T.failed
          /\ T.pc = "done" => T.exc = "synthesis"

\* The send to the first client of the list failed, the second client still
\* got metadata and audio of the job; the job has finished and the next one
\* waits in the queue.
C10_Witness ==
    \E w \in TaskIds :
      LET T == tasks[w]
      IN  /\ T.pc = "fin"
          /\ T.clients = <<"c1", "c2">>
          /\ T.failed = {"c1"}
          /\ Has("c2", <<"meta", T.job.n>>)
          /\ Has("c2", <<"audio", T.job.n>>)
          /\ tts_queues[T.target] # <<>>

\* C11: once the audio of a job has been produced, the metadata record that
\* was delivered for the job carries the duration computed from that audio,
\* and its timestamp is the send_ts from which expected_end was set.
C11_MetaMatchesAudio ==
    \A w \in TaskIds :
      LET T == tasks[w]
      IN  T.pc \in {"audio", "fin"} /\ <<"meta", T.job.n>> \in Range(hist[T.target]) =>
            /\ T.chunk_meta.duration_sec = T.dur
            /\ T.chunk_meta.timestamp = T.send_ts
            /\ tts_expected_end[T.target] = T.send_ts + T.dur
\* -------------------------------------------------------- claims: ingest
RECURSIVE SpaceJoin(_)
SpaceJoin(q) ==
    IF q = <<>> THEN <<>>
    ELSE IF Len(q) = 1 THEN q[1]
    ELSE q[1] \o <<" ">> \o SpaceJoin(Tail(q))

SegmentTexts(s) == [i \in 1..Len(segments[s]) |-> segments[s][i].text]
BufferPiece(s) == IF ses[s].buffer_text = <<>> THEN <<>> ELSE <<ses[s].buffer_text>>
Open(s) == ses[s].pc = "recv"

\* C12: in an open session the texts of the segments dispatched so far, the
\* buffer and the fragments still being handed over (put on the queue or
\* scheduled for it), joined by spaces in that order, are the fragments
\* recognized so far joined by spaces.
C12_AppliedOnceInOrder ==
    \A s \in Sessions :
      Open(s) =>
        SpaceJoin(SegmentTexts(s) \o BufferPiece(s) \o result_queue[s] \o scheduled[s])
          = SpaceJoin(recognized[s])

\* A segment has been dispatched, the fragment recognized after it is still
\* on its way to the queue.
C12_Witness ==
    /\ Open("S1")
    /\ Len(recognized["S1"]) = 2
    /\ Len(segments["S1"]) = 1
    /\ segments["S1"][1].text = recognized["S1"][1]
    /\ scheduled["S1"] = <<recognized["S1"][2]>>

\* C15: a session that has ended, by the EOF message or by the client
\* disconnecting, has left its loop with its recognizer stopped.
C15_EndStopsRecognizer ==
    \A s \in Sessions :
      /\ ws[s] = "eof" => ses[s].pc = "closed" /\ recognizer[s] = "stopped"
      /\ ws[s] = "disconnected" /\ ses[s].exc = "receive" =>
           recognizer[s] = "stopped"

\* C16: in the step that receives EOF and in every later step the session
\* dispatches no segment and enqueues no job, and the loop has been left.
C16_NoFlushAfterEOF ==
    [][\A s \in Sessions :
         ws'[s] = "eof" =>
           /\ segments'[s] = segments[s]
           /\ ses'[s].pc = "closed"
           /\ ses'[s].buffer_text = ses[s].buffer_text
           /\ ws[s] # "eof" => njobs' = njobs /\ tts_queues' = tts_queues]_vars

\* EOF came while the buffer held text and a fragment was waiting in the
\* queue; neither was dispatched.
C16_Witness ==
    /\ ws["S1"] = "eof"
    /\ ses["S1"].buffer_text # <<>>
    /\ result_queue["S1"] # <<>>
    /\ segments["S1"] = <<>>

C20_CutTakesWholeBuffer ==
    [][\A s \in Sessions :
         segments'[s] # segments[s] =>
           /\ Len(segments'[s]) = Len(segments[s]) + 1
           /\ SubSeq(segments'[s], 1, Len(segments[s])) = segments[s]
           /\ segments'[s][Len(segments'[s])].text
                = SpaceJoin(BufferPiece(s) \o result_queue[s])
           /\ result_queue'[s] = <<>>
           /\ ses'[s].pc = "recv" =>
                ses'[s].buffer_text = <<>> /\ ses'[s].silence_ms = 0]_vars

\* A buffer of two fragments was dispatched as one segment and the loop goes
\* on with an empty buffer.
C20_Witness ==
    /\ Open("S1")
    /\ Len(recognized["S1"]) = 2
    /\ SegmentTexts("S1") = <<SpaceJoin(recognized["S1"])>>
    /\ ses["S1"].buffer_text = <<>>
    /\ ses["S1"].silence_ms = 0
\* ----------------------------------------------------- claims: segmenter
Returned == call.fn = "should_cut_segment" /\ call.done

\* C17: should_cut_segment returns true for every text whose last character
\* is one of . ? ! danda, double danda, ellipsis, whatever silence_ms and
\* max_ms are.
C17_TerminalMarkCuts ==
    Returned /\ EndsWith(call.text, TerminalMarks) => call.result = TRUE

\* C18: for a text that does not end with one of the six terminal marks the
\* result is true exactly when silence_ms >= 800 or silence_ms >= max_ms.
C18_SilenceDecides ==
    Returned /\ ~EndsWith(call.text, TerminalMarks) =>
      (call.result <=> (call.silence_ms >= 800 \/ call.silence_ms >= call.max_ms))

\* An unterminated text at exactly 800 ms, below max_ms: cut.
C18_Witness ==
    /\ Returned
    /\ call.text = <<"a">>
    /\ call.silence_ms = 800
    /\ call.max_ms = DEFAULT_MAX_MS
    /\ call.result = TRUE
\* ------------------------------------------------------ claims: pipeline
\* How often job n is on a queue, and how often it was taken off one.
Queued(n) ==
    Cardinality({<<t, i>> \in Targets \X (1..MaxJobs) :
                   i <= Len(tts_queues[t]) /\ tts_queues[t][i].n = n})
Dequeued(n) ==
    Cardinality({<<t, i>> \in Targets \X (1..(5 * MaxJobs)) :
                   i <= Len(hist[t]) /\ hist[t][i] = <<"deq", n>>})
Ended(s) == ses[s].pc \in {"closed", "raised"}
Live(t) == tts_tasks[t] # 0 /\ tasks[tts_tasks[t]].pc # "done"

\* C13: each dispatched segment whose translation returned has one job of its
\* own, each job belongs to one segment, and a job is either on the queue of
\* its session's target, once, or was taken off it, once; a segment whose
\* translation failed has no job, and it is the last one of its session.
C13_OneJobPerSegment ==
    /\ \A n \in 1..njobs :
         /\ Queued(n) + Dequeued(n) = 1
         /\ Cardinality({<<s, i>> \in Sessions \X (1..MaxJobs + 1) :
                           i <= Len(segments[s]) /\ segments[s][i].job = n}) = 1
    /\ \A s \in Sessions : \A i \in 1..Len(segments[s]) :
         LET n == segments[s][i].job
             t == ses[s].target
         IN  /\ n <= njobs
             /\ n = 0 => i = Len(segments[s]) /\ ses[s].pc = "raised"
             /\ n > 0 =>
                  \/ \E k \in 1..Len(tts_queues[t]) :
                       tts_queues[t][k].n = n /\ tts_queues[t][k].session = s
                  \/ <<"deq", n>> \in Range(hist[t])

\* The first segment's job has been taken by the worker and its audio sent;
\* the translation of the second segment failed.
C13_Witness ==
    /\ Len(segments["S1"]) = 2
    /\ segments["S1"][1].job = 1
    /\ segments["S1"][2].job = 0
    /\ <<"audio", 1>> \in Range(hist[ses["S1"].target])
    /\ njobs = 1

\* C14: a job whose session has ended is never left on a queue without a
\* live worker for its target (no one would ever take it: it would not be
\* synthesized and broadcast).
C14_NoStrandedJob ==
    \A t \in Targets : \A i \in 1..Len(tts_queues[t]) :
      Ended(tts_queues[t][i].session) => Live(t)
\* ------------------------------------------------------------- segment ids
\* C21: within one session no two dispatched segments have the same segment
\* id, whatever the time between the two cuts.
C21_UniqueChunkIds ==
    \A s \in Sessions : \A i, j \in 1..Len(segments[s]) :
        i # j => segments[s][i].chunk_id # segments[s][j].chunk_id

\* ---------------------------------------------------------- translate_texts
Translated == call.fn = "translate_texts" /\ call.done

\* What the provider's i-th item says, with the placeholders put back.
ItemText(i) ==
    LET terms_sorted == SortedByLen(call.glossary_terms)
        item == Payload(call.provider, call.result.body, Len(terms_sorted))[i]
    IN  Restore(item.text, terms_sorted, 1)

\* C22: whenever translate_texts returns, its list is as long as the input
\* and its i-th element is the translation the provider gave for the i-th
\* input.
C22_SameLengthAndOrder ==
    (Translated /\ call.result.raises = "none") =>
        /\ Len(call.result.output) = Len(call.texts)
        /\ \A i \in 1..Len(call.texts) : call.result.output[i] = ItemText(i)

\* x has an occurrence of p
Occurs(x, p) == \E i \in 1..Len(x) : StartsWith(SubSeq(x, i, Len(x)), p)

\* The provider answers with one full item for each text of the request.
OneItemEach ==
    /\ call.provider.status = 200
    /\ call.provider.is_list
    /\ Len(call.provider.shape) = Len(call.texts)
    /\ \A i \in 1..Len(call.texts) : call.provider.shape[i] = "full"

\* C23: when a term of the glossary is a part of a longer term, in any file
\* order, and the provider leaves placeholders intact, every input that has
\* the longer term comes back with the longer term in it.
C23_LongerTermKept ==
    (Translated /\ OneItemEach) =>
        \A a, b \in 1..Len(call.glossary_terms) :
            LET short == call.glossary_terms[a]
                long == call.glossary_terms[b]
            IN  (Len(short) < Len(long) /\ Occurs(long, short)) =>
                    \A i \in 1..Len(call.texts) :
                        Occurs(call.texts[i], long) => Occurs(call.result.output[i], long)

\* C24: when the provider returns the protected texts unchanged,
\* translate_texts returns the input texts unchanged.
C24_RoundTrip ==
    (Translated /\ OneItemEach /\ call.provider.how = "echo") =>
        call.result.output = call.texts

\* C25: translate_texts ends in an error, returning no list, whenever the
\* status is not 200, the payload is no list, or an item of it has no
\* non-empty "translations"; and it makes one request, no more.
C25_ErrorsRaised ==
    Translated =>
        /\ call.result.posts = 1
        /\ ( \/ call.provider.status # 200
             \/ ~call.provider.is_list
             \/ \E i \in 1..Len(call.provider.shape) : call.provider.shape[i] # "full" )
           => (call.result.raises # "none" /\ call.result.output = <<>>)

\* --------------------------------------------------------------- empty jobs
\* C26: a job whose translated text is empty is skipped: the worker never
\* sends its metadata, never calls stream_pcm for it and never sends audio.
C26_EmptyJobSkipped ==
    \A w \in TaskIds :
        (tasks[w].job # NoJob /\ tasks[w].job.text = "") =>
            tasks[w].pc \notin Broadcasting

\* ------------------------------------------------------- sessions together
\* Everything of the sessions other than s is as it was.
OthersUntouched(s) ==
    \A r \in Sessions \ {s} :
        /\ ses'[r] = ses[r]
        /\ ws'[r] = ws[r]
        /\ result_queue'[r] = result_queue[r]
        /\ scheduled'[r] = scheduled[r]
        /\ recognizer'[r] = recognizer[r]
        /\ segments'[r] = segments[r]

\* C27: a step in which an exception ends a session's ingest loop changes
\* nothing of any other session (buffer, silence counter, position), nothing
\* of the pacers (queues, workers, lock, timing) and nothing of the
\* registry, and leaves the event loop free for them to go on.
C27_ExceptionContained ==
    [][\A s \in Sessions :
          (ses[s].pc # "raised" /\ ses'[s].pc = "raised") =>
              /\ OthersUntouched(s)
              /\ UNCHANGED pacerVars
              /\ Quiet']_vars

\* S1 has ended by a failed translation while S2 is in its loop with its
\* first job at a worker and its second job queued.
C27_Witness ==
    /\ ses["S1"].pc = "raised" /\ ses["S1"].exc = "translate"
    /\ ses["S2"].pc = "recv"
    /\ Len(segments["S2"]) = 2
    /\ \E w \in TaskIds : tasks[w].pc = "audio" /\ tasks[w].job.session = "S2"
    /\ \E t \in Targets : \E i \in 1..Len(tts_queues[t]) :
          tts_queues[t][i].session = "S2"

\* C28: while a session is inside translate_texts, the other tasks can run:
\* another session's loop can take an audio frame and a recognized fragment
\* can be handed over, and a worker can dequeue, finish a synthesis and send.
C28_OthersNotBlocked ==
    \A s \in Sessions :
        (ses[s].pc = "translate" /\ \A w \in TaskIds : tasks[w].pc \notin NonYielding) =>
            /\ \A r \in Sessions \ {s} :
                  (ses[r].pc = "recv" /\ ws[r] = "connected") =>
                      ENABLED (\E len \in FrameBytes : RecvBytesToCall(r, len))
            /\ \A r \in Sessions : scheduled[r] # <<>> => ENABLED Deliver(r)
            /\ \A w \in TaskIds :
                  /\ (tasks[w].pc \in {"start", "get"} /\ tts_queues[tasks[w].target] # <<>>)
                        => ENABLED Dequeue(w)
                  /\ tasks[w].pc = "synth" => ENABLED SynthDone(w, 2)
                  /\ tasks[w].pc = "meta" => ENABLED MetaSend(w)
                  /\ tasks[w].pc = "audio" => ENABLED AudioSend(w)

\* C29: when translate_texts has returned, the job is on the target's queue
\* and the session is back in its loop in the same step, whatever is queued
\* and wherever the workers are; no worker and no lock is touched by it.
C29_DispatchNeverWaits ==
    [][\A s \in Sessions :
          (ses[s].pc = "translate" /\ ses'[s].pc \notin {"translate", "raised"}) =>
              /\ ses'[s].pc = "recv"
              /\ Len(tts_queues'[ses[s].target]) = Len(tts_queues[ses[s].target]) + 1
              /\ \A w \in TaskIds : tasks[w].pc # "unborn" => tasks'[w] = tasks[w]
              /\ tts_locks' = tts_locks]_vars

\* S1 is back in its loop after its second dispatch; its first job is still
\* being synthesized and the second is queued behind it.
C29_Witness ==
    /\ ses["S1"].pc = "recv"
    /\ Len(segments["S1"]) = 2 /\ segments["S1"][2].job = 2
    /\ \E w \in TaskIds : /\ tasks[w].pc = "synth"
                          /\ tasks[w].job.n = 1
                          /\ Len(tts_queues[tasks[w].target]) = 1
                          /\ tts_queues[tasks[w].target][1].n = 2

\* ------------------------------------------------------------ the idle loop
\* C30: in an open session that gets no message, every fragment in the
\* hand-off queue is eventually taken into the buffer, and every non-empty
\* buffer is eventually dispatched as a segment.
C30_IdleLoopDispatches ==
    \A s \in IngestSessions :
        /\ (result_queue[s] # <<>>) ~> (result_queue[s] = <<>>)
        /\ \A n \in 0..MaxFragments :
              (ses[s].buffer_text # <<>> /\ Len(segments[s]) = n)
                 ~> (Len(segments[s]) > n)

\* A fragment without a terminal mark of the segmenter has been dispatched,
\* by timeouts alone, and the buffer is empty again.
C30_Witness ==
    \E s \in IngestSessions :
        /\ ses[s].pc = "recv"
        /\ ses[s].buffer_text = <<>>
        /\ \E i \in 1..Len(segments[s]) :
              /\ ~EndsWith(segments[s][i].text, AsciiMarks)
              /\ segments[s][i].job > 0

\* -------------------------------------------------------- the worker's life
\* C31: the worker of a target exits once it has finished a job and finds
\* its queue empty (the next enqueue starts another): a worker that is not
\* busy with a job and whose queue is empty has ended.
C31_WorkerExitsWhenDrained ==
    \A t \in Targets :
        ( /\ tts_tasks[t] # 0
          /\ tts_queues[t] = <<>>
          /\ tasks[tts_tasks[t]].pc \notin (InFlight \cup {"start"}) )
            => tasks[tts_tasks[t]].pc = "done"

\* -------------------------------------------------------- the silence counter
\* C32: the silence counter of a session is within 0..2000 ms after every
\* step, and it is 0 after a step in which the session has cut a segment
\* and goes on.
C32_SilenceBounded ==
    [][\A s \in Sessions :
          /\ ses'[s].silence_ms >= 0
          /\ ses'[s].silence_ms <= 2000
          /\ (Len(segments'[s]) > Len(segments[s]) /\ ses'[s].pc = "recv")
                => ses'[s].silence_ms = 0]_vars

\* The loop has run for longer than 2000 ms and the counter stands at its
\* upper limit; a segment has been cut on the way.
C32_Witness ==
    \E s \in IngestSessions :
        /\ perf > 2000
        /\ ses[s].last_loop_ts = perf
        /\ ses[s].silence_ms = 2000
        /\ segments[s] # <<>>

\* ------------------------------------------------------------- the targets
\* C33: when the handshake of a session names several targets, each of
\* them has one job for every segment the session has dispatched.
C33_JobPerNamedTarget ==
    \A s \in Sessions : \A t \in Range(ses[s].meta.targets) :
        Cardinality({k \in 1..Len(tts_queues[t]) : tts_queues[t][k].session = s})
          = Cardinality({i \in 1..Len(segments[s]) : segments[s][i].job > 0})


\* C34: with a sample rate format_map has no entry for, the service accepts
\* no session, dequeues no job, and no worker reaches the call of stream_pcm.
C34_UnsupportedRateRejected ==
    TTS_OUTPUT_SAMPLE_RATE \notin format_map =>
        /\ \A s \in Sessions : ses[s].pc = "unborn"
        /\ \A t \in Targets : hist[t] = <<>>
        /\ \A w \in TaskIds : tasks[w].pc # "synth"


\* The non-empty chunks the synthesizer has emitted, in emission order.
EmittedChunks == SelectSeq(call.events, LAMBDA e : e # 0)

IsPrefixOf(a, b) == Len(a) <= Len(b) /\ \A i \in 1..Len(a) : a[i] = b[i]

\* C35: what stream_pcm has yielded is always the start of what the
\* synthesizer emitted (each chunk once, in emission order); it has finished
\* only with the completion or cancellation signal delivered and every chunk
\* yielded; and once the signal is delivered and every chunk is yielded, it
\* finishes.
C35_StreamYieldsAllThenEnds ==
    /\ [](call.fn = "stream_pcm" =>
            /\ IsPrefixOf(call.yielded, EmittedChunks)
            /\ call.pc = "finished" =>
                  (call.ended /\ call.done /\ call.yielded = EmittedChunks))
    /\ ((call.done /\ call.yielded = EmittedChunks) ~> call.pc = "finished")

\* stream_pcm has finished after two chunks and an event without audio.
C35_Witness ==
    /\ call.fn = "stream_pcm"
    /\ call.pc = "finished"
    /\ Len(call.yielded) = 2
    /\ 0 \in Range(call.events)


\* C36: whenever the job queue of a target is not empty, the target has a
\* worker task that has not ended.
C36_LiveWorkerForQueuedJobs ==
    \A t \in Targets :
        tts_queues[t] # <<>> =>
            /\ tts_tasks[t] # 0
            /\ tasks[tts_tasks[t]].pc # "done"


Blank(text) == Strip(text) = <<>>

\* C37: no text that is empty or whitespace only is ever handed over by
\* on_recognized (neither scheduled nor in the hand-off queue), and no
\* dispatched segment has such a text.
C37_NoEmptySegment ==
    \A s \in Sessions :
        /\ \A i \in 1..Len(scheduled[s]) : ~Blank(scheduled[s][i])
        /\ \A i \in 1..Len(result_queue[s]) : ~Blank(result_queue[s][i])
        /\ \A i \in 1..Len(segments[s]) : ~Blank(segments[s][i].text)

\* A loop iteration has just run with the silence counter at 800 ms or more
\* and an empty buffer, and nothing has been dispatched.
C37_Witness ==
    \E s \in IngestSessions :
        /\ ses[s].pc = "recv"
        /\ perf > 0
        /\ ses[s].last_loop_ts = perf
        /\ ses[s].silence_ms >= 800
        /\ should_cut_segment(ses[s].buffer_text, ses[s].silence_ms, DEFAULT_MAX_MS)
        /\ ses[s].buffer_text = <<>>
        /\ segments[s] = <<>>


\* The buckets of the registry other than that of (s, t) are the same in
\* the next state, keys included.
OtherBucketsUnchanged(s, t) ==
    \A s2 \in Sessions, t2 \in Targets :
        <<s2, t2>> # <<s, t>> =>
            /\ Bucket(SUBS', s2, t2) = Bucket(SUBS, s2, t2)
            /\ (s2 \in DOMAIN SUBS' /\ t2 \in DOMAIN SUBS'[s2])
                  <=> (s2 \in DOMAIN SUBS /\ t2 \in DOMAIN SUBS[s2])

\* C38: a step of a worker on a job of session s for target t (the lookup
\* and registry write, a metadata send, an audio send) delivers only to
\* connections registered under (s, t) and changes no bucket but that of
\* (s, t).
C38_OnlyOwnBucket ==
    [][\A w \in TaskIds :
          (Begin(w) \/ MetaSend(w) \/ AudioSend(w)) =>
              LET s == tasks[w].job.session
                  t == tasks[w].target
              IN  /\ \A c \in Conns :
                        inbox'[c] # inbox[c] =>
                            /\ c \in Range(Bucket(SUBS, s, t))
                            /\ conn[c].session = s
                            /\ conn[c].target = t
                  /\ OtherBucketsUnchanged(s, t)]_vars

\* Each listener has received the audio of its own session's job, while the
\* other session keeps its listener, and a job of the other target of S1 has
\* been processed as well.
C38_Witness ==
    /\ <<"audio", 1>> \in Range(inbox["c1"])
    /\ <<"audio", 2>> \in Range(inbox["c2"])
    /\ Bucket(SUBS, "S1", "hi-IN") = <<"c1">>
    /\ Bucket(SUBS, "S2", "hi-IN") = <<"c2">>


\* The translated frames pushed downstream so far, in the order of the pushes.
PushedTexts ==
    SelectSeq(translation_queue.pushed, LAMBDA f : f \in Range(translation_queue.put))

\* C39: at most one drain task is in push_frame at any instant, no drain
\* task starts with the lock held, the translated frames are pushed once each
\* and in the order they arrived, and every frame put on the queue is
\* eventually pushed.
C39_SequentialDrain ==
    /\ [](LET q == translation_queue
          IN  /\ Cardinality({d \in DrainIds : q.drains[d].pc = "pushing"}) <= 1
              /\ \A d \in DrainIds : q.drains[d].pc = "created" => q.drain_lock = 0
              /\ IsPrefixOf(PushedTexts, q.put))
    /\ \A f \in 1..MaxFrames :
          (f \in Range(translation_queue.put)) ~> (f \in Range(translation_queue.pushed))

\* Three translated frames have been pushed by two drain tasks: one task
\* took a frame that arrived while it was pushing, the other was made for a
\* frame that arrived after the first had ended.
C39_Witness ==
    LET q == translation_queue
    IN  /\ Len(q.put) = 3
        /\ PushedTexts = q.put
        /\ q.drains[1].pc = "done"
        /\ q.drains[2].pc = "done"
        /\ q.drains[3].pc = "unborn"

====
